---- MODULE Spec2Model ----
(***************************************************************************)
(* Poker hand-history pipeline: the SQLite store (database.py), the        *)
(* session ingestor (ingest.py), the identity resolver (mappings.py) and   *)
(* the player-statistics query (visualize.py).                             *)
(*                                                                         *)
(* Tables are sequences of rows in rowid order.  Only the columns that     *)
(* take part in a constraint, a join, a grouping or a lookup are kept;     *)
(* the other columns are copied verbatim from the document by the code.    *)
(***************************************************************************)
EXTENDS Integers, Sequences, FiniteSets, TLC

\* SQL NULL / Python None in a text column and in an integer column.
NULL == "NULL"
NullInt == 0 - 1

\* ------------------------------------------------------------------ bounds
\* Number of ingest_file calls in one behaviour of Spec.
MaxIngests == 2
\* Number of load_mappings calls in one behaviour of SpecMap.
MaxLoads == 2
\* Number of documents in one directory.
MaxBatch == 3

\* ------------------------------------------------------------ the store
VARIABLES
    games,              \* rows [id, generated_at]
    hands,              \* rows [id, game_id, hand_number]
    players,            \* rows [id, name]
    hand_players,       \* rows [hand_id, player_id, seat]
    events,             \* rows [hand_id, event_type, seat]
    community_cards,    \* rows [hand_id, card_1 .. card_5]
    hand_results,       \* rows [hand_id, seat, player_id]
    canonical_players,  \* rows [id, name]
    player_mappings,    \* rows [raw_player_id, nickname, canonical_id]
    call,               \* the last operation called and its arguments
    ret,                \* what that call returned, or the exception it raised
    reingest,           \* TRUE iff the last call ingested the document that
                        \* the call before it had ingested successfully
    nIngest,            \* number of ingest_file / ingest_directory calls so far
    loaded,             \* the last mapping source whose load returned counts
    nLoad,              \* number of load_mappings calls so far
    replaced,           \* TRUE iff the last call was a load that returned its
                        \* counts and found an alias resolvable that its
                        \* source does not list
    locked,             \* TRUE iff a connection that a raising call never
                        \* closed still holds the write lock of the store
    txn                 \* the load_mappings call in progress, if any: its
                        \* source, the next entry and its uncommitted writes

rawTables == <<games, hands, players, hand_players, events, community_cards, hand_results>>
mapTables == <<canonical_players, player_mappings>>
vars == <<games, hands, players, hand_players, events, community_cards,
          hand_results, canonical_players, player_mappings, call, ret,
          reingest, nIngest, loaded, nLoad, replaced, locked, txn>>

\* The store as one value, as a connection sees it.
DB ==
    [games |-> games, hands |-> hands, players |-> players,
     hand_players |-> hand_players, events |-> events,
     community_cards |-> community_cards, hand_results |-> hand_results,
     canonical_players |-> canonical_players, player_mappings |-> player_mappings]

\* init_database on a fresh file: every table exists and is empty.
EmptyDB ==
    [games |-> <<>>, hands |-> <<>>, players |-> <<>>, hand_players |-> <<>>,
     events |-> <<>>, community_cards |-> <<>>, hand_results |-> <<>>,
     canonical_players |-> <<>>, player_mappings |-> <<>>]

\* ------------------------------------------------------ sequence helpers
Range(s) == {s[i] : i \in DOMAIN s}

IsPrefix(s, t) == Len(s) <= Len(t) /\ SubSeq(t, 1, Len(s)) = s

\* ------------------------------------------------- SQLite insert semantics
\* INSERT OR REPLACE into a table whose TEXT PRIMARY KEY is column "id":
\* a row with the same non-NULL id is deleted, the new row gets a fresh
\* rowid.  A NULL id conflicts with nothing (SQLite allows NULL in a
\* non-INTEGER PRIMARY KEY and treats NULLs as distinct).
ReplaceById(table, row) ==
    SelectSeq(table, LAMBDA r : ~(row.id # NULL /\ r.id = row.id)) \o <<row>>

\* Mutant: hand_players without its UNIQUE constraint (a plain append).
AppendHandPlayer(table, row) == Append(table, row)

\* Mutant: hand_players unique per (hand_id, seat) instead of per player.
ReplaceHandSeat(table, row) ==
    SelectSeq(table, LAMBDA r :
        ~(r.hand_id = row.hand_id /\ r.seat = row.seat)) \o <<row>>

\* INSERT OR REPLACE into hand_players, UNIQUE(hand_id, player_id).
ReplaceHandPlayer(table, row) ==
    SelectSeq(table, LAMBDA r :
        ~(r.hand_id = row.hand_id /\ r.player_id = row.player_id)) \o <<row>>

\* ------------------------------------------------------------- documents
\* One roster entry, one event, one hand and one session document, as the
\* JSON carries them.  An absent field is NULL / NullInt (dict.get -> None).
Player(id, name, seat) == [id |-> id, name |-> name, seat |-> seat]
Event(type, seat, cards) == [type |-> type, seat |-> seat, cards |-> cards]
Hand(id, number, roster, evs) ==
    [id |-> id, number |-> number, players |-> roster, events |-> evs]
Document(gameId, generatedAt, hs) ==
    [gameId |-> gameId, generatedAt |-> generatedAt, hands |-> hs]

\* ------------------------------------------------------------ ingest_file
\* seat_to_player is a Python dict: a function on the seats put so far.
SeatPut(m, seat, pid) ==
    [x \in DOMAIN m \cup {seat} |-> IF x = seat THEN pid ELSE m[x]]
SeatGet(m, seat) == IF seat \in DOMAIN m THEN m[seat] ELSE NULL

\* Mutant: the missing slots filled in front of the cards.
RECURSIVE PadCardsFront(_)
PadCardsFront(cards) ==
    IF Len(cards) < 5 THEN PadCardsFront(<<NULL>> \o cards) ELSE cards

RECURSIVE PadCards(_)
\* while len(cards) < 5: cards.append(None)
PadCards(cards) ==
    IF Len(cards) < 5 THEN PadCards(Append(cards, NULL)) ELSE cards

Raise(ctx, kind, what) == [ctx EXCEPT !.status = kind, !.error = what]

\* Mutant: a player counts as first seen when the store holds no row of it.
ProcessPlayerNewToStore(ctx, hand_id, player) ==
    LET s2p == SeatPut(ctx.seat_to_player, player.seat, player.id)
        first == \A r \in Range(ctx.db.players) : r.id # player.id
        db1 == IF first
               THEN [ctx.db EXCEPT !.players =
                        ReplaceById(@, [id |-> player.id, name |-> player.name])]
               ELSE ctx.db
        c1 == [ctx EXCEPT
                 !.seat_to_player = s2p,
                 !.all_players = IF first THEN @ \cup {player.id} ELSE @,
                 !.db = db1,
                 !.stats.players_added = IF first THEN @ + 1 ELSE @]
    IN  IF hand_id = NULL
        THEN Raise(c1, "IntegrityError", "hand_players.hand_id")
        ELSE IF player.id = NULL
        THEN Raise(c1, "IntegrityError", "hand_players.player_id")
        ELSE [c1 EXCEPT !.db.hand_players =
                 ReplaceHandPlayer(@, [hand_id |-> hand_id,
                                       player_id |-> player.id,
                                       seat |-> player.seat])]

\* Body of the roster loop for one player of the hand hand_id.
ProcessPlayer(ctx, hand_id, player) ==
    LET s2p == SeatPut(ctx.seat_to_player, player.seat, player.id)
        first == player.id \notin ctx.all_players
        db1 == IF first
               THEN [ctx.db EXCEPT !.players =
                        ReplaceById(@, [id |-> player.id, name |-> player.name])]
               ELSE ctx.db
        c1 == [ctx EXCEPT
                 !.seat_to_player = s2p,
                 !.all_players = IF first THEN @ \cup {player.id} ELSE @,
                 !.db = db1,
                 !.stats.players_added = IF first THEN @ + 1 ELSE @]
    IN  IF hand_id = NULL
        THEN Raise(c1, "IntegrityError", "hand_players.hand_id")
        ELSE IF player.id = NULL
        THEN Raise(c1, "IntegrityError", "hand_players.player_id")
        ELSE [c1 EXCEPT !.db.hand_players =
                 ReplaceHandPlayer(@, [hand_id |-> hand_id,
                                       player_id |-> player.id,
                                       seat |-> player.seat])]

\* Mutant: the three event tables keyed by their content, so that a second
\* ingest replaces the rows of the first instead of appending.
ProcessEventUpsert(ctx, hand_id, event) ==
    LET Put(t, row) == SelectSeq(t, LAMBDA r : r # row) \o <<row>>
    IN  IF hand_id = NULL
        THEN Raise(ctx, "IntegrityError", "events.hand_id")
        ELSE IF event.type = 9
        THEN LET cards == PadCards(event.cards)
             IN  [ctx EXCEPT !.db.community_cards = Put(@,
                     [hand_id |-> hand_id,
                      card_1 |-> cards[1], card_2 |-> cards[2], card_3 |-> cards[3],
                      card_4 |-> cards[4], card_5 |-> cards[5]])]
        ELSE IF event.type = 10
        THEN [ctx EXCEPT
                !.db.hand_results = Put(@,
                    [hand_id |-> hand_id, seat |-> event.seat,
                     player_id |-> SeatGet(ctx.seat_to_player, event.seat)]),
                !.stats.results_added = @ + 1]
        ELSE [ctx EXCEPT
                !.db.events = Put(@,
                    [hand_id |-> hand_id, event_type |-> event.type,
                     seat |-> event.seat]),
                !.stats.events_added = @ + 1]

\* The keys of EVENT_TYPES, the documented action-type tags.
EVENT_TYPES == {0, 2, 3, 7, 8, 9, 10, 11, 12, 15, 16}

\* Mutant: an event whose tag is not a key of EVENT_TYPES is dropped.
ProcessEventKnownOnly(ctx, hand_id, event) ==
    IF hand_id = NULL
    THEN Raise(ctx, "IntegrityError", "events.hand_id")
    ELSE IF event.type \notin EVENT_TYPES
    THEN ctx
    ELSE IF event.type = 9
    THEN LET cards == PadCards(event.cards)
         IN  [ctx EXCEPT !.db.community_cards = Append(@,
                 [hand_id |-> hand_id,
                  card_1 |-> cards[1], card_2 |-> cards[2], card_3 |-> cards[3],
                  card_4 |-> cards[4], card_5 |-> cards[5]])]
    ELSE IF event.type = 10
    THEN [ctx EXCEPT
            !.db.hand_results = Append(@,
                [hand_id |-> hand_id, seat |-> event.seat,
                 player_id |-> SeatGet(ctx.seat_to_player, event.seat)]),
            !.stats.results_added = @ + 1]
    ELSE [ctx EXCEPT
            !.db.events = Append(@,
                [hand_id |-> hand_id, event_type |-> event.type,
                 seat |-> event.seat]),
            !.stats.events_added = @ + 1]

\* Body of the event loop for one event of the hand hand_id.
ProcessEvent(ctx, hand_id, event) ==
    IF hand_id = NULL
    THEN Raise(ctx, "IntegrityError",
               IF event.type = 9 THEN "community_cards.hand_id"
               ELSE IF event.type = 10 THEN "hand_results.hand_id"
               ELSE "events.hand_id")
    ELSE IF event.type = 9
    THEN LET cards == PadCards(event.cards)
         IN  [ctx EXCEPT !.db.community_cards = Append(@,
                 [hand_id |-> hand_id,
                  card_1 |-> cards[1], card_2 |-> cards[2], card_3 |-> cards[3],
                  card_4 |-> IF Len(cards) > 3 THEN cards[4] ELSE NULL,
                  card_5 |-> IF Len(cards) > 4 THEN cards[5] ELSE NULL])]
    ELSE IF event.type = 10
    THEN [ctx EXCEPT
            !.db.hand_results = Append(@,
                [hand_id |-> hand_id, seat |-> event.seat,
                 player_id |-> SeatGet(ctx.seat_to_player, event.seat)]),
            !.stats.results_added = @ + 1]
    ELSE [ctx EXCEPT
            !.db.events = Append(@,
                [hand_id |-> hand_id, event_type |-> event.type,
                 seat |-> event.seat]),
            !.stats.events_added = @ + 1]

RECURSIVE PlayersLoop(_, _, _, _)
\* for player in hand.get("players", []): ... ; an exception leaves the loop.
PlayersLoop(ctx, hand_id, roster, i) ==
    IF i > Len(roster) \/ ctx.status # "ok" THEN ctx
    ELSE PlayersLoop(ProcessPlayer(ctx, hand_id, roster[i]), hand_id, roster, i + 1)

RECURSIVE EventsLoop(_, _, _, _)
\* for event in hand.get("events", []): ...
EventsLoop(ctx, hand_id, evs, i) ==
    IF i > Len(evs) \/ ctx.status # "ok" THEN ctx
    ELSE EventsLoop(ProcessEvent(ctx, hand_id, evs[i]), hand_id, evs, i + 1)

\* Mutant: seat_to_player created once per document, not once per hand.
ProcessHandKeepSeats(ctx, game_id, hand) ==
    IF game_id = NULL
    THEN Raise(ctx, "IntegrityError", "hands.game_id")
    ELSE
    LET c1 == [ctx EXCEPT
                 !.db.hands = ReplaceById(@, [id |-> hand.id, game_id |-> game_id,
                                              hand_number |-> hand.number])]
        c2 == PlayersLoop(c1, hand.id, hand.players, 1)
        c3 == EventsLoop(c2, hand.id, hand.events, 1)
    IN  IF c3.status = "ok"
        THEN [c3 EXCEPT !.stats.hands_processed = @ + 1]
        ELSE c3

\* Mutant: hands_processed counts the hands rows that are new to the store.
ProcessHandCountNew(ctx, game_id, hand) ==
    IF game_id = NULL
    THEN Raise(ctx, "IntegrityError", "hands.game_id")
    ELSE
    LET c1 == [ctx EXCEPT
                 !.db.hands = ReplaceById(@, [id |-> hand.id, game_id |-> game_id,
                                              hand_number |-> hand.number]),
                 !.seat_to_player = <<>>]
        c2 == PlayersLoop(c1, hand.id, hand.players, 1)
        c3 == EventsLoop(c2, hand.id, hand.events, 1)
    IN  IF c3.status = "ok" /\ \A r \in Range(ctx.db.hands) : r.id # hand.id
        THEN [c3 EXCEPT !.stats.hands_processed = @ + 1]
        ELSE c3

\* Mutant: hands.game_id without its NOT NULL constraint.
ProcessHandNullableSession(ctx, game_id, hand) ==
    LET c1 == [ctx EXCEPT
                 !.db.hands = ReplaceById(@, [id |-> hand.id, game_id |-> game_id,
                                              hand_number |-> hand.number]),
                 !.seat_to_player = <<>>]
        c2 == PlayersLoop(c1, hand.id, hand.players, 1)
        c3 == EventsLoop(c2, hand.id, hand.events, 1)
    IN  IF c3.status = "ok"
        THEN [c3 EXCEPT !.stats.hands_processed = @ + 1]
        ELSE c3

\* Body of the hand loop: the hands row, the roster, the events.
ProcessHand(ctx, game_id, hand) ==
    IF game_id = NULL
    THEN Raise(ctx, "IntegrityError", "hands.game_id")
    ELSE
    LET c1 == [ctx EXCEPT
                 !.db.hands = ReplaceById(@, [id |-> hand.id, game_id |-> game_id,
                                              hand_number |-> hand.number]),
                 !.seat_to_player = <<>>]
        c2 == PlayersLoop(c1, hand.id, hand.players, 1)
        c3 == EventsLoop(c2, hand.id, hand.events, 1)
    IN  IF c3.status = "ok"
        THEN [c3 EXCEPT !.stats.hands_processed = @ + 1]
        ELSE c3

RECURSIVE HandsLoop(_, _, _, _)
\* for hand in data.get("hands", []): ...
HandsLoop(ctx, game_id, hs, i) ==
    IF i > Len(hs) \/ ctx.status # "ok" THEN ctx
    ELSE HandsLoop(ProcessHand(ctx, game_id, hs[i]), game_id, hs, i + 1)

\* Mutant: a connection in autocommit mode, every write durable at once.
CommittedEach(before, ctx) == ctx.db

\* The connection's implicit transaction: the writes of a call reach the
\* store at conn.commit(); a call that raises never commits and its writes
\* are rolled back when the connection is released.
Committed(before, ctx) == IF ctx.status = "ok" THEN ctx.db ELSE before

\* ingest_file(json_path, db_path): the store after the call and what the
\* caller gets (the stats, or the exception).
ingest_file(db, data) ==
    LET c0 == [status |-> "ok", error |-> NULL,
               db |-> [db EXCEPT !.games =
                          ReplaceById(@, [id |-> data.gameId,
                                          generated_at |-> data.generatedAt])],
               all_players |-> {},
               seat_to_player |-> <<>>,
               stats |-> [game_id |-> data.gameId, hands_processed |-> 0,
                          players_added |-> 0, events_added |-> 0,
                          results_added |-> 0]]
        c == HandsLoop(c0, data.gameId, data.hands, 1)
    IN  [status |-> c.status, error |-> c.error, stats |-> c.stats,
         db |-> Committed(db, c)]

RECURSIVE DirectoryLoop(_, _, _)
\* for json_file in path.glob("*.json"): stats = ingest_file(...);
\* results.append(stats).  An exception of ingest_file is not caught: it
\* leaves the loop and the function, and the results so far are lost.
DirectoryLoop(ctx, files, i) ==
    IF i > Len(files) \/ ctx.status # "ok" THEN ctx
    ELSE LET r == ingest_file(ctx.db, files[i])
         IN  DirectoryLoop(
                 [status |-> r.status, error |-> r.error, db |-> r.db,
                  results |-> IF r.status = "ok"
                              THEN Append(ctx.results, r.stats) ELSE <<>>],
                 files, i + 1)

\* ingest_directory(dir_path, db_path) on the documents the directory
\* holds, in the order glob yields them.
ingest_directory(db, files) ==
    DirectoryLoop([status |-> "ok", error |-> NULL, db |-> db, results |-> <<>>],
                  files, 1)


\* ---------------------------------------------------------- load_mappings
\* The mapping source: the YAML file may be absent (exists = FALSE), may lack
\* the canonical_players key or be empty (hasKey = FALSE), or carries a list
\* of canonical entries, each with a name, an optional id and aliases.
Alias(id, nickname) == [id |-> id, nickname |-> nickname]
Entry(name, id, aliases) == [name |-> name, id |-> id, aliases |-> aliases]
Source(entries) ==
    [exists |-> TRUE, hasKey |-> TRUE, scalar |-> FALSE, canonical_players |-> entries]
MissingSource ==
    [exists |-> FALSE, hasKey |-> FALSE, scalar |-> FALSE, canonical_players |-> <<>>]
KeylessSource ==
    [exists |-> TRUE, hasKey |-> FALSE, scalar |-> FALSE, canonical_players |-> <<>>]
\* A file whose whole content is a number or a boolean (scalar = TRUE):
\* safe_load returns a value that is truthy and not a container.
ScalarSource ==
    [exists |-> TRUE, hasKey |-> FALSE, scalar |-> TRUE, canonical_players |-> <<>>]

\* A warning appended to stats["errors"].
Warning(kind, raw_id, nickname) ==
    [kind |-> kind, raw_id |-> raw_id, nickname |-> nickname]

\* The rowid SQLite assigns to an INTEGER PRIMARY KEY left out of the
\* INSERT: one more than the largest in the table, 1 in an empty table.
RECURSIVE MaxId(_)
MaxId(table) ==
    IF table = <<>> THEN 0
    ELSE LET m == MaxId(Tail(table))
         IN  IF Head(table).id > m THEN Head(table).id ELSE m
NextRowId(table) == MaxId(table) + 1

\* Mutant: a duplicate alias replaces the earlier binding
\* (INSERT OR REPLACE INTO player_mappings).
ProcessAliasReplace(ctx, canonical_id, alias) ==
    IF alias.id = NULL \/ alias.nickname = NULL
    THEN ctx
    ELSE [ctx EXCEPT
            !.db.player_mappings =
                SelectSeq(@, LAMBDA r :
                    ~(r.raw_player_id = alias.id /\ r.nickname = alias.nickname))
                \o <<[raw_player_id |-> alias.id, nickname |-> alias.nickname,
                      canonical_id |-> canonical_id]>>,
            !.stats.mappings_added = @ + 1]

\* Mutant: the INSERT of an alias outside a try block, so that a duplicate
\* pair raises out of load_mappings.
ProcessAliasRaise(ctx, canonical_id, alias) ==
    IF alias.id = NULL \/ alias.nickname = NULL
    THEN ctx
    ELSE IF \E r \in Range(ctx.db.player_mappings) :
               r.raw_player_id = alias.id /\ r.nickname = alias.nickname
    THEN Raise(ctx, "IntegrityError", "player_mappings.raw_player_id, nickname")
    ELSE [ctx EXCEPT
            !.db.player_mappings = Append(@,
                [raw_player_id |-> alias.id, nickname |-> alias.nickname,
                 canonical_id |-> canonical_id]),
            !.stats.mappings_added = @ + 1]

\* Mutant: player_mappings without its UNIQUE constraint (a plain append).
ProcessAliasAppend(ctx, canonical_id, alias) ==
    IF alias.id = NULL \/ alias.nickname = NULL
    THEN ctx
    ELSE [ctx EXCEPT
            !.db.player_mappings = Append(@,
                [raw_player_id |-> alias.id, nickname |-> alias.nickname,
                 canonical_id |-> canonical_id]),
            !.stats.mappings_added = @ + 1]

\* Body of the alias loop for one alias of the canonical player canonical_id.
ProcessAlias(ctx, canonical_id, alias) ==
    IF alias.id = NULL \/ alias.nickname = NULL
    THEN ctx
    ELSE IF \E r \in Range(ctx.db.player_mappings) :
               r.raw_player_id = alias.id /\ r.nickname = alias.nickname
    THEN [ctx EXCEPT !.stats.errors =
             Append(@, Warning("Failed to add mapping", alias.id, alias.nickname))]
    ELSE [ctx EXCEPT
            !.db.player_mappings = Append(@,
                [raw_player_id |-> alias.id, nickname |-> alias.nickname,
                 canonical_id |-> canonical_id]),
            !.stats.mappings_added = @ + 1]

RECURSIVE AliasLoop(_, _, _, _)
\* for alias in player.get("aliases", []): ...
AliasLoop(ctx, canonical_id, aliases, i) ==
    IF i > Len(aliases) \/ ctx.status # "ok" THEN ctx
    ELSE AliasLoop(ProcessAlias(ctx, canonical_id, aliases[i]), canonical_id, aliases, i + 1)

\* Mutant: no check of the name, so that an entry without one reaches the
\* INSERT and violates NOT NULL.
ProcessEntryUnchecked(ctx, player) ==
    LET cps == ctx.db.canonical_players
        canonical_id == IF player.id # NullInt THEN player.id ELSE NextRowId(cps)
    IN  IF player.name = NULL
        THEN Raise(ctx, "IntegrityError", "NOT NULL canonical_players.name")
        ELSE IF player.id # NullInt /\ \E r \in Range(cps) : r.id = player.id
        THEN Raise(ctx, "IntegrityError", "canonical_players.id")
        ELSE IF \E r \in Range(cps) : r.name = player.name
        THEN Raise(ctx, "IntegrityError", "canonical_players.name")
        ELSE AliasLoop(
                [ctx EXCEPT
                    !.db.canonical_players =
                        Append(@, [id |-> canonical_id, name |-> player.name]),
                    !.stats.canonical_players_added = @ + 1],
                canonical_id, player.aliases, 1)

\* Body of the canonical-player loop for one entry of the source.
ProcessEntry(ctx, player) ==
    IF player.name = NULL
    THEN [ctx EXCEPT !.stats.errors =
             Append(@, Warning("Player entry missing 'name' field", NULL, NULL))]
    ELSE
    LET cps == ctx.db.canonical_players
        canonical_id == IF player.id # NullInt THEN player.id ELSE NextRowId(cps)
    IN  IF player.id # NullInt /\ \E r \in Range(cps) : r.id = player.id
        THEN Raise(ctx, "IntegrityError", "canonical_players.id")
        ELSE IF \E r \in Range(cps) : r.name = player.name
        THEN Raise(ctx, "IntegrityError", "canonical_players.name")
        ELSE AliasLoop(
                [ctx EXCEPT
                    !.db.canonical_players =
                        Append(@, [id |-> canonical_id, name |-> player.name]),
                    !.stats.canonical_players_added = @ + 1],
                canonical_id, player.aliases, 1)

RECURSIVE EntriesLoop(_, _, _)
\* for player in config.get("canonical_players", []): ...
EntriesLoop(ctx, entries, i) ==
    IF i > Len(entries) \/ ctx.status # "ok" THEN ctx
    ELSE EntriesLoop(ProcessEntry(ctx, entries[i]), entries, i + 1)

\* Mutant: an incremental load that keeps the earlier rows.
KeepMappings(db) == db

\* Mutant: a load that starts from an empty players table as well.
ClearMappingsAndPlayers(db) ==
    [db EXCEPT !.player_mappings = <<>>, !.canonical_players = <<>>,
               !.players = <<>>]

\* DELETE FROM player_mappings; DELETE FROM canonical_players
ClearMappings(db) ==
    [db EXCEPT !.player_mappings = <<>>, !.canonical_players = <<>>]

NoLoadStats ==
    [canonical_players_added |-> NullInt, mappings_added |-> NullInt, errors |-> <<>>]

\* Mutant: the DELETEs and every INSERT committed as they are executed, so
\* that a load that raises leaves the tables partly repopulated.
RepopulateEach(db, config) ==
    LET c0 == [status |-> "ok", error |-> NULL,
               db |-> ClearMappings(db),
               stats |-> [canonical_players_added |-> 0, mappings_added |-> 0,
                          errors |-> <<>>]]
        c == EntriesLoop(c0, config.canonical_players, 1)
    IN  [status |-> c.status, error |-> c.error,
         stats |-> IF c.status = "ok" THEN c.stats ELSE NoLoadStats,
         db |-> c.db]

\* The part of load_mappings after the source has been read: the two
\* DELETEs, the loop over the entries, the commit.
Repopulate(db, config) ==
    LET c0 == [status |-> "ok", error |-> NULL,
               db |-> ClearMappings(db),
               stats |-> [canonical_players_added |-> 0, mappings_added |-> 0,
                          errors |-> <<>>]]
        c == EntriesLoop(c0, config.canonical_players, 1)
    IN  [status |-> c.status, error |-> c.error,
         stats |-> IF c.status = "ok" THEN c.stats ELSE NoLoadStats,
         db |-> Committed(db, c)]

\* load_mappings(yaml_path, db_path): the store after the call and what the
\* caller gets: {"error": ...}, the stats, or the exception.
load_mappings(db, config) ==
    IF ~config.exists
    THEN [status |-> "ok", error |-> "Mapping file not found",
          stats |-> NoLoadStats, db |-> db]
    ELSE IF config.scalar
    THEN [status |-> "TypeError", error |-> "argument of type 'int' is not iterable",
          stats |-> NoLoadStats, db |-> db]
    ELSE IF ~config.hasKey
    THEN [status |-> "ok", error |-> "Invalid YAML format",
          stats |-> NoLoadStats, db |-> db]
    ELSE Repopulate(db, config)

\* 'canonical_' || CAST(cp.id AS TEXT), f"canonical_{row['id']}"
CanonicalKey(id) == "canonical_" \o ToString(id)

\* The rows of player_mappings JOIN canonical_players that match the pair.
MappingMatches(db, player_id, nickname) ==
    SelectSeq(db.player_mappings, LAMBDA pm :
        /\ player_id # NULL /\ nickname # NULL
        /\ pm.raw_player_id = player_id /\ pm.nickname = nickname
        /\ \E cp \in Range(db.canonical_players) : cp.id = pm.canonical_id)

\* The canonical_players row a player_mappings row joins with.
CanonicalOf(db, pm) ==
    CHOOSE cp \in Range(db.canonical_players) : cp.id = pm.canonical_id

\* get_canonical_name(player_id, nickname, db_path)
get_canonical_name(db, player_id, nickname) ==
    LET rows == MappingMatches(db, player_id, nickname)
    IN  IF rows = <<>> THEN NULL ELSE CanonicalOf(db, rows[1]).name

\* resolve_player(player_id, nickname, conn)
resolve_player(db, player_id, nickname) ==
    LET rows == MappingMatches(db, player_id, nickname)
    IN  IF rows = <<>> THEN <<player_id, nickname>>
        ELSE <<CanonicalKey(CanonicalOf(db, rows[1]).id), CanonicalOf(db, rows[1]).name>>


\* --------------------------------------------------- get_player_statistics
\* players p JOIN hand_players hp ON p.id = hp.player_id
\*           JOIN hands h ON hp.hand_id = h.id
\* as triples of row numbers.  A NULL never equals anything.
JoinedRows(db) ==
    {t \in (DOMAIN db.players) \X (DOMAIN db.hand_players) \X (DOMAIN db.hands) :
        /\ db.players[t[1]].id # NULL
        /\ db.players[t[1]].id = db.hand_players[t[2]].player_id
        /\ db.hands[t[3]].id # NULL
        /\ db.hand_players[t[2]].hand_id = db.hands[t[3]].id}

\* players p JOIN hand_players hp ON p.id = hp.player_id, as triples whose
\* third component is unused (get_enriched_player_stats joins no hands).
JoinedParticipations(db) ==
    {t \in (DOMAIN db.players) \X (DOMAIN db.hand_players) \X {0} :
        /\ db.players[t[1]].id # NULL
        /\ db.players[t[1]].id = db.hand_players[t[2]].player_id}

\* Mutant: the raw query groups by the resolved identity too.
AlwaysResolvedKey(db, use_enriched, p) == resolve_player(db, p.id, p.name)[1]

\* The GROUP BY expression of the two queries:
\* COALESCE('canonical_' || CAST(cp.id AS TEXT), p.id), or p.id.
GroupingKey(db, use_enriched, p) ==
    IF use_enriched THEN resolve_player(db, p.id, p.name)[1] ELSE p.id

\* COALESCE(cp.name, p.name), or p.name.
DisplayName(db, use_enriched, p) ==
    IF use_enriched THEN resolve_player(db, p.id, p.name)[2] ELSE p.name

\* Mutant: COUNT(hp.hand_id) without DISTINCT.
CountHands(db, group) == Cardinality({t[2] : t \in group})

\* COUNT(DISTINCT hp.hand_id) over the joined rows of one group.
CountDistinctHands(db, group) ==
    Cardinality({db.hand_players[t[2]].hand_id : t \in group})

\* COUNT(DISTINCT h.game_id) over the joined rows of one group.
CountDistinctGames(db, group) ==
    Cardinality({db.hands[t[3]].game_id : t \in group})

\* Mutant: the threshold compared with > instead of >=.
HavingMoreThan(row, min_games) == min_games > 0 => row.games_played > min_games

\* HAVING COUNT(DISTINCT h.game_id) >= min_games, present only if min_games > 0.
Having(row, min_games) == min_games > 0 => row.games_played >= min_games

\* get_player_statistics(db_path, use_enriched, min_games): the result rows
\* (their order, by total_profit, is not modelled).
get_player_statistics(db, use_enriched, min_games) ==
    LET J == JoinedRows(db)
        KeyOf(t) == GroupingKey(db, use_enriched, db.players[t[1]])
        Group(k) == {t \in J : KeyOf(t) = k}
        RowOf(k) ==
            [id |-> k,
             name |-> DisplayName(db, use_enriched,
                                  db.players[(CHOOSE t \in Group(k) : TRUE)[1]]),
             hands_played |-> CountDistinctHands(db, Group(k)),
             games_played |-> CountDistinctGames(db, Group(k))]
    IN  {r \in {RowOf(k) : k \in {KeyOf(t) : t \in J}} : Having(r, min_games)}

\* get_enriched_player_stats(db_path)
get_enriched_player_stats(db) ==
    LET J == JoinedParticipations(db)
        KeyOf(t) == GroupingKey(db, TRUE, db.players[t[1]])
        Group(k) == {t \in J : KeyOf(t) = k}
        RowOf(k) ==
            [player_key |-> k,
             player_name |-> DisplayName(db, TRUE,
                                  db.players[(CHOOSE t \in Group(k) : TRUE)[1]]),
             hands_played |-> CountDistinctHands(db, Group(k))]
    IN  {RowOf(k) : k \in {KeyOf(t) : t \in J}}

\* get_session_data(db_path, use_enriched): one result row per row of
\* hands JOIN hand_players JOIN players, as the distinct rows with the number
\* of their copies (order, stack and net gain are not modelled).
get_session_data(db, use_enriched) ==
    LET J == JoinedRows(db)
        RowOf(t) ==
            [hand_number |-> db.hands[t[3]].hand_number,
             player_id |-> GroupingKey(db, use_enriched, db.players[t[1]]),
             name |-> DisplayName(db, use_enriched, db.players[t[1]])]
    IN  {[row |-> r, copies |-> Cardinality({t \in J : RowOf(t) = r})] :
            r \in {RowOf(t) : t \in J}}

\* get_pot_sizes(db_path): one result row per hands row with a hand_results
\* row (GROUP BY h.id), as the distinct hand numbers with the number of their
\* rows (the pot itself is not modelled).
get_pot_sizes(db) ==
    LET H == {i \in DOMAIN db.hands :
                 /\ db.hands[i].id # NULL
                 /\ \E hr \in Range(db.hand_results) : hr.hand_id = db.hands[i].id}
    IN  {[hand_number |-> n,
          copies |-> Cardinality({i \in H : db.hands[i].hand_number = n})] :
            n \in {db.hands[i].hand_number : i \in H}}

\* players p JOIN hand_players hp ON p.id = hp.player_id GROUP BY p.id, p.name
\* with COUNT(DISTINCT hp.hand_id): one row per players row that has a
\* participation.
ParticipationRows(db) ==
    {[player_id |-> p.id, nickname |-> p.name,
      hands_played |-> Cardinality({hp.hand_id : hp \in
                          {x \in Range(db.hand_players) : x.player_id = p.id}})] :
        p \in {x \in Range(db.players) :
                  /\ x.id # NULL
                  /\ \E hp \in Range(db.hand_players) : hp.player_id = x.id}}

\* list_unmapped_players(db_path): the rows of the same join LEFT JOINed to
\* player_mappings ON p.id = pm.raw_player_id AND p.name = pm.nickname that
\* found no mapping (WHERE pm.id IS NULL); a NULL nickname matches none.
\* The order of the list is not modelled.
list_unmapped_players(db) ==
    {r \in ParticipationRows(db) :
        ~\E pm \in Range(db.player_mappings) :
            /\ r.nickname # NULL
            /\ pm.raw_player_id = r.player_id /\ pm.nickname = r.nickname}

\* The orders in which ORDER BY hands_played DESC may yield a set of rows:
\* rows that tie come in any order.
OrderedByHands(rows) ==
    {q \in [1..Cardinality(rows) -> rows] :
        /\ \A i, j \in DOMAIN q : q[i] = q[j] => i = j
        /\ \A i, j \in DOMAIN q : i < j => q[i].hands_played >= q[j].hands_played}

\* A string or None as yaml.dump writes it: None as the null scalar, a
\* string as a scalar that reads back as that string (quoted where the
\* plain text would read as a number, a boolean or null).
YamlScalar(v) == IF v = NULL THEN [tag |-> "null", text |-> ""]
                 ELSE [tag |-> "str", text |-> v]

\* The scalar as yaml.safe_load reads it.
ParseScalar(s) == IF s.tag = "null" THEN NULL ELSE s.text

\* yaml.dump of the structure export_players_template builds from the rows:
\* per row an entry with the keys name and aliases, and no key id.
yaml_dump(q) ==
    [i \in DOMAIN q |->
        [name |-> YamlScalar(q[i].nickname),
         aliases |-> <<[id |-> YamlScalar(q[i].player_id),
                        nickname |-> YamlScalar(q[i].nickname)]>>]]

\* export_players_template(db_path): the templates the call may return, one
\* per order the query may yield its rows in.
export_players_template(db) ==
    {yaml_dump(q) : q \in OrderedByHands(ParticipationRows(db))}

\* yaml.safe_load of a template written to the mapping file: a mapping with
\* the key canonical_players; player.get("id") of its entries is None.
safe_load(text) ==
    Source([i \in DOMAIN text |->
               Entry(ParseScalar(text[i].name), NullInt,
                     [k \in DOMAIN text[i].aliases |->
                         Alias(ParseScalar(text[i].aliases[k].id),
                               ParseScalar(text[i].aliases[k].nickname))])])

\* MIN_GAMES of generate_dashboard.py, the threshold get_table_data passes.
MIN_GAMES == 3

\* ------------------------------------------------- documents of the model
GameIds == {"g1", "g2"}
HandIds == {"h1", "h2"}
Deck == <<"Ah", "Kd", "2c", "7s", "Td", "9h">>

RosterAB == <<Player("p1", "Ann", 1), Player("p2", "Bob", 2)>>
RosterRenamed == <<Player("p1", "Al", 2)>>
RosterSwapped == <<Player("p2", "Bob", 1)>>
RosterTwice == <<Player("p1", "Ann", 1), Player("p1", "Al", 2)>>
RosterSharedSeat == <<Player("p1", "Ann", 1), Player("p2", "Bob", 1)>>
RosterNoId == <<Player(NULL, "Ann", 1)>>
Rosters == {<<>>, RosterAB, RosterRenamed, RosterSwapped, RosterTwice,
            RosterSharedSeat, RosterNoId}

\* big blind on seat 1, small blind on seat 2, result for seat 1
EvBlinds == <<Event(2, 1, <<>>), Event(3, 2, <<>>), Event(10, 1, <<>>)>>
\* a tag outside EVENT_TYPES and an event without payload
EvUnknown == <<Event(99, 1, <<>>), Event(NullInt, NullInt, <<>>)>>
\* results for seat 1 and seat 2
EvResults == <<Event(10, 1, <<>>), Event(10, 2, <<>>)>>
\* a community-card event with the first k cards of the deck
EvBoard(k) == <<Event(9, NullInt, SubSeq(Deck, 1, k))>>
\* blinds, a flop and a result in one hand
EvFull == <<Event(2, 1, <<>>), Event(9, NullInt, SubSeq(Deck, 1, 3)),
            Event(3, 2, <<>>), Event(10, 1, <<>>)>>
EventLists ==
    {EvBlinds, EvUnknown, EvResults, EvFull} \cup {EvBoard(k) : k \in 0..Len(Deck)}

\* one hand, every roster
RosterDocs ==
    {Document("g1", 1, <<Hand("h1", 1, r, <<>>)>>) : r \in Rosters}
\* the same session and hand identifiers under changing attributes
AttrDocs ==
    {Document(g, n, <<Hand(h, n, RosterAB, <<>>)>>) :
        g \in GameIds, h \in HandIds, n \in 1..2}
\* one hand, every event list
EventDocs ==
    {Document("g1", 1, <<Hand("h1", 1, RosterAB, e)>>) : e \in EventLists}
\* two hands in one document
TwoHandDocs ==
    {Document("g1", 1, <<Hand("h1", 1, RosterAB, EvBlinds),
                         Hand("h2", 2, RosterSwapped, EvResults)>>),
     Document("g1", 1, <<Hand("h1", 1, RosterAB, <<>>),
                         Hand("h2", 2, RosterRenamed, <<>>)>>),
     Document("g1", 1, <<Hand("h1", 1, RosterAB, <<>>),
                         Hand("h1", 2, RosterRenamed, <<>>)>>)}
\* documents lacking a session identifier or a hand identifier
MalformedDocs ==
    {Document(NULL, 1, <<>>),
     Document(NULL, 1, <<Hand("h1", 1, RosterAB, <<>>)>>),
     Document("g1", 1, <<Hand(NULL, 1, <<>>, <<>>)>>),
     Document("g1", 1, <<Hand(NULL, 1, RosterAB, <<>>)>>),
     Document("g1", 1, <<Hand(NULL, 1, <<>>, EvBlinds)>>),
     Document("g1", 1, <<Hand("h1", 1, RosterAB, EvBlinds),
                         Hand(NULL, 2, RosterAB, <<>>)>>)}
Docs == RosterDocs \cup AttrDocs \cup EventDocs \cup TwoHandDocs \cup MalformedDocs

\* the documents of a directory: two that ingest_file accepts and one whose
\* second hand lacks its identifier
DirFirst == Document("g1", 1, <<Hand("h1", 1, RosterAB, <<>>)>>)
DirBroken == Document("g1", 1, <<Hand("h1", 1, RosterAB, EvBlinds),
                                 Hand(NULL, 2, RosterAB, <<>>)>>)
DirLast == Document("g2", 1, <<Hand("h2", 1, RosterAB, <<>>)>>)
DirDocs == {DirFirst, DirBroken, DirLast}
\* the directories: every listing of at most MaxBatch documents
Batches ==
    UNION {[1..n -> DirDocs] : n \in 0..MaxBatch}

\* the documents ingested before the statistics are queried: two sessions of
\* one hand each, under four rosters
RosterAnn == <<Player("p1", "Ann", 1)>>
QueryDocs ==
    {Document(x[1], 1, <<Hand(x[2], 1, r, <<>>)>>) :
        x \in {<<"g1", "h1">>, <<"g2", "h2">>},
        r \in {RosterAnn, RosterSwapped, RosterAB, RosterRenamed}}

\* two raw players under one nickname
RosterSameName == <<Player("p1", "Ann", 1), Player("p2", "Ann", 2)>>
\* a roster entry without nickname beside a named one
RosterNoName == <<Player("p1", NULL, 1), Player("p2", "Bob", 2)>>
\* the documents ingested before a template is exported
RoundDocs ==
    {Document("g1", 1, <<Hand("h1", 1, RosterAB, EvResults)>>),
     Document("g1", 1, <<Hand("h1", 1, RosterSameName, <<>>)>>),
     Document("g2", 1, <<Hand("h2", 1, RosterRenamed, EvBlinds)>>),
     Document("g2", 1, <<Hand("h2", 1, RosterNoName, <<>>)>>)}

\* a raw player whose identifier reads like the key of a canonical player
RosterKeyLike == <<Player("canonical_1", "Cy", 2)>>
\* the documents ingested where raw identifiers are arbitrary strings: two
\* sessions of one hand each, the player Cy alone, beside Ann, or absent
KeyDocs ==
    {Document("g1", 1, <<Hand("h1", 1, RosterAnn, <<>>)>>),
     Document("g1", 1, <<Hand("h1", 1, RosterAnn \o RosterKeyLike, <<>>)>>),
     Document("g2", 1, <<Hand("h2", 1, RosterKeyLike, <<>>)>>),
     Document("g2", 1, <<Hand("h2", 1, RosterSwapped, <<>>)>>)}

\* --------------------------------------------------- sources of the model
RawIds == {"p1", "p2"}
Nicknames == {"Ann", "Bob", "Al"}
AnnP1 == Alias("p1", "Ann")
BobP2 == Alias("p2", "Bob")
AlP1 == Alias("p1", "Al")

\* both raw identities under one canonical player
SrcMerged == Source(<<Entry("Lenny", NullInt, <<AnnP1, BobP2>>)>>)
\* one canonical player per raw identity
SrcSplit == Source(<<Entry("Lenny", NullInt, <<AnnP1>>),
                     Entry("Mia", NullInt, <<BobP2>>)>>)
\* an explicit id followed by an assigned one
SrcExplicitId == Source(<<Entry("Lenny", 2, <<AnnP1>>),
                          Entry("Mia", NullInt, <<AlP1>>)>>)
\* an explicit id equal to the one just assigned
SrcIdClash == Source(<<Entry("Lenny", NullInt, <<AnnP1>>),
                       Entry("Mia", 1, <<BobP2>>)>>)
\* the same display name twice
SrcNameClash == Source(<<Entry("Lenny", NullInt, <<AnnP1>>),
                         Entry("Lenny", NullInt, <<BobP2>>)>>)
\* an entry without name
SrcNameless == Source(<<Entry(NULL, NullInt, <<AnnP1>>),
                        Entry("Mia", NullInt, <<BobP2>>)>>)
\* the same alias twice under one entry
SrcAliasTwice == Source(<<Entry("Lenny", NullInt, <<AnnP1, AnnP1, BobP2>>)>>)
\* the same alias under two entries
SrcAliasShared == Source(<<Entry("Lenny", NullInt, <<AnnP1>>),
                           Entry("Mia", NullInt, <<AnnP1, BobP2>>)>>)
\* alias stubs lacking a field
SrcStubs == Source(<<Entry("Lenny", NullInt,
                           <<Alias("p1", NULL), Alias(NULL, "Ann"), AlP1>>)>>)
\* an alias repeated under its entry and again under the next entry, each
\* time followed by a new alias
SrcAliasAgain == Source(<<Entry("Lenny", NullInt, <<AnnP1, AnnP1, AlP1>>),
                          Entry("Mia", NullInt, <<AnnP1, BobP2>>)>>)
\* two nicknames of one raw id under two canonical players
SrcTwoNicks == Source(<<Entry("Lenny", NullInt, <<AnnP1>>),
                        Entry("Mia", NullInt, <<AlP1>>)>>)
\* the sources loaded before the statistics are queried
QuerySources == {Source(<<>>), SrcMerged, SrcSplit, SrcTwoNicks}
Sources ==
    {MissingSource, KeylessSource, ScalarSource, Source(<<>>), SrcMerged, SrcSplit,
     SrcExplicitId, SrcIdClash, SrcNameClash, SrcNameless, SrcAliasTwice,
     SrcAliasShared, SrcAliasAgain, SrcStubs, SrcTwoNicks}

\* ---------------------------------------------------------------- actions
NoStats ==
    [game_id |-> NULL, hands_processed |-> NullInt, players_added |-> NullInt,
     events_added |-> NullInt, results_added |-> NullInt]

Init ==
    /\ games = <<>> /\ hands = <<>> /\ players = <<>> /\ hand_players = <<>>
    /\ events = <<>> /\ community_cards = <<>> /\ hand_results = <<>>
    /\ canonical_players = <<>> /\ player_mappings = <<>>
    /\ call = [op |-> "none"]
    /\ ret = [status |-> "none"]
    /\ reingest = FALSE
    /\ nIngest = 0
    /\ loaded = Source(<<>>)
    /\ nLoad = 0
    /\ replaced = FALSE
    /\ locked = FALSE
    /\ txn = [pc |-> "idle"]

\* The store as the connection of the load in progress sees it: with its
\* own uncommitted writes.
Working == IF txn.pc = "loading" THEN txn.ctx.db ELSE DB

\* Mutant: a reader that sees the uncommitted writes of another connection.
VisibleUncommitted(committed, working) == working

\* The store as a connection other than the writing one reads it: SQLite
\* shows a reader the committed rows only.
Visible(committed, working) == committed

\* A writing call made while an unclosed connection of an earlier, raising
\* call still holds the write lock: the first write waits for the busy
\* timeout and raises, nothing is written.
Busy(db, stats) ==
    [status |-> "OperationalError", error |-> "database is locked",
     stats |-> stats, db |-> db]

\* The store after an operation that returned the store value db.
StoreBecomes(db) ==
    /\ games' = db.games /\ hands' = db.hands /\ players' = db.players
    /\ hand_players' = db.hand_players /\ events' = db.events
    /\ community_cards' = db.community_cards /\ hand_results' = db.hand_results
    /\ canonical_players' = db.canonical_players
    /\ player_mappings' = db.player_mappings

\* One call of ingest_file on document d.
Ingest(d) ==
    /\ nIngest < MaxIngests
    /\ LET r == IF locked THEN Busy(DB, NoStats) ELSE ingest_file(DB, d)
       IN  /\ StoreBecomes(r.db)
           /\ ret' = [status |-> r.status, error |-> r.error,
                      stats |-> IF r.status = "ok" THEN r.stats ELSE NoStats]
           /\ locked' = (r.status # "ok")
    /\ call' = [op |-> "ingest_file", doc |-> d]
    /\ reingest' = (call.op = "ingest_file" /\ ret.status = "ok" /\ call.doc = d)
    /\ nIngest' = nIngest + 1
    /\ replaced' = FALSE
    /\ UNCHANGED <<loaded, nLoad, txn>>

\* One call of ingest_directory on a directory holding the documents files.
IngestDir(files) ==
    /\ nIngest < MaxIngests
    /\ LET r == IF locked /\ files # <<>>
                THEN [status |-> "OperationalError", error |-> "database is locked",
                      db |-> DB, results |-> <<>>]
                ELSE ingest_directory(DB, files)
       IN  /\ StoreBecomes(r.db)
           /\ ret' = [status |-> r.status, error |-> r.error,
                      results |-> r.results]
           /\ locked' = (locked \/ r.status # "ok")
    /\ call' = [op |-> "ingest_directory", files |-> files]
    /\ reingest' = FALSE
    /\ nIngest' = nIngest + 1
    /\ replaced' = FALSE
    /\ UNCHANGED <<loaded, nLoad, txn>>

\* The unclosed connection of a call that raised is reclaimed (garbage
\* collection, or the end of the process): its transaction is rolled back
\* and the write lock released.
Collect ==
    /\ locked
    /\ locked' = FALSE
    /\ call' = [op |-> "collect"]
    /\ ret' = [status |-> "ok"]
    /\ reingest' = FALSE
    /\ replaced' = FALSE
    /\ UNCHANGED <<rawTables, mapTables, nIngest, loaded, nLoad, txn>>

\* A load_mappings call returned its counts (no "error" field, no exception).
Completed(r) == r.status = "ok" /\ r.error = NULL

\* One call of load_mappings on source s.
Load(s) ==
    /\ nLoad < MaxLoads
    /\ LET r == IF locked /\ s.exists /\ s.hasKey
                THEN Busy(DB, NoLoadStats) ELSE load_mappings(DB, s)
       IN  /\ StoreBecomes(r.db)
           /\ locked' = (locked \/ (r.status # "ok" /\ ~s.scalar))
           /\ ret' = [status |-> r.status, error |-> r.error, stats |-> r.stats]
           /\ loaded' = IF Completed(r) THEN s ELSE loaded
           /\ replaced' =
                 /\ Completed(r)
                 /\ \E p \in RawIds, n \in Nicknames :
                       /\ get_canonical_name(DB, p, n) # NULL
                       /\ \A e \in Range(s.canonical_players) :
                             \A a \in Range(e.aliases) : a.id # p \/ a.nickname # n
    /\ call' = [op |-> "load_mappings", src |-> s]
    /\ reingest' = FALSE
    /\ nLoad' = nLoad + 1
    /\ UNCHANGED <<nIngest, txn>>

\* load_mappings up to its two DELETEs (lines 22-45), on a source that
\* exists and has its key: the connection is opened and the DELETEs are
\* executed in its transaction.  With the store locked the first DELETE
\* raises.
LoadBegin(s) ==
    /\ txn.pc = "idle" /\ nLoad < MaxLoads
    /\ s.exists /\ s.hasKey
    /\ LET c0 == [status |-> "ok", error |-> NULL, db |-> ClearMappings(DB),
                  stats |-> [canonical_players_added |-> 0, mappings_added |-> 0,
                             errors |-> <<>>]]
       IN  txn' = [pc |-> "loading", src |-> s, i |-> 1,
                   ctx |-> IF locked
                           THEN [Raise(c0, "OperationalError", "database is locked")
                                    EXCEPT !.db = DB]
                           ELSE c0]
    /\ call' = [op |-> "load_mappings", src |-> s]
    /\ ret' = [status |-> "running"]
    /\ nLoad' = nLoad + 1
    /\ reingest' = FALSE /\ replaced' = FALSE
    /\ UNCHANGED <<rawTables, mapTables, nIngest, loaded, locked>>

\* One iteration of the loop over the entries (lines 47-88), in the
\* transaction of the load in progress.
LoadEntry ==
    /\ txn.pc = "loading" /\ txn.ctx.status = "ok"
    /\ txn.i <= Len(txn.src.canonical_players)
    /\ txn' = [txn EXCEPT !.ctx = ProcessEntry(@, txn.src.canonical_players[txn.i]),
                          !.i = @ + 1]
    /\ UNCHANGED <<rawTables, mapTables, call, ret, reingest, nIngest, loaded,
                   nLoad, replaced, locked>>

\* conn.commit(), conn.close(), return stats (lines 90-93).
LoadCommit ==
    /\ txn.pc = "loading" /\ txn.ctx.status = "ok"
    /\ txn.i > Len(txn.src.canonical_players)
    /\ StoreBecomes(txn.ctx.db)
    /\ ret' = [status |-> "ok", error |-> NULL, stats |-> txn.ctx.stats]
    /\ loaded' = txn.src
    /\ replaced' =
          \E p \in RawIds, n \in Nicknames :
              /\ get_canonical_name(DB, p, n) # NULL
              /\ \A e \in Range(txn.src.canonical_players) :
                    \A a \in Range(e.aliases) : a.id # p \/ a.nickname # n
    /\ txn' = [pc |-> "idle"]
    /\ call' = [op |-> "load_mappings", src |-> txn.src]
    /\ reingest' = FALSE
    /\ UNCHANGED <<nIngest, nLoad, locked>>

\* The exception of an INSERT leaves load_mappings: nothing is committed
\* and the connection is not closed.
LoadRaise ==
    /\ txn.pc = "loading" /\ txn.ctx.status # "ok"
    /\ ret' = [status |-> txn.ctx.status, error |-> txn.ctx.error,
               stats |-> NoLoadStats]
    /\ locked' = TRUE
    /\ txn' = [pc |-> "idle"]
    /\ call' = [op |-> "load_mappings", src |-> txn.src]
    /\ reingest' = FALSE /\ replaced' = FALSE
    /\ UNCHANGED <<rawTables, mapTables, nIngest, loaded, nLoad>>

\* One call of get_canonical_name.
Lookup(player_id, nickname) ==
    /\ call' = [op |-> "get_canonical_name", player_id |-> player_id,
                nickname |-> nickname]
    /\ ret' = [status |-> "ok",
               value |-> get_canonical_name(Visible(DB, Working), player_id, nickname)]
    /\ reingest' = FALSE
    /\ replaced' = FALSE
    /\ UNCHANGED <<rawTables, mapTables, nIngest, loaded, nLoad, locked, txn>>

\* One call of resolve_player.
Resolve(player_id, nickname) ==
    /\ call' = [op |-> "resolve_player", player_id |-> player_id,
                nickname |-> nickname]
    /\ ret' = [status |-> "ok",
               value |-> resolve_player(Visible(DB, Working), player_id, nickname)]
    /\ reingest' = FALSE
    /\ replaced' = FALSE
    /\ UNCHANGED <<rawTables, mapTables, nIngest, loaded, nLoad, locked, txn>>

\* One call of get_player_statistics.
Stats(use_enriched, min_games) ==
    /\ call' = [op |-> "get_player_statistics", use_enriched |-> use_enriched,
                min_games |-> min_games]
    /\ ret' = [status |-> "ok",
               value |-> get_player_statistics(DB, use_enriched, min_games)]
    /\ reingest' = FALSE
    /\ replaced' = FALSE
    /\ UNCHANGED <<rawTables, mapTables, nIngest, loaded, nLoad, locked, txn>>

\* One call of get_enriched_player_stats.
EnrichedStats ==
    /\ call' = [op |-> "get_enriched_player_stats"]
    /\ ret' = [status |-> "ok", value |-> get_enriched_player_stats(DB)]
    /\ reingest' = FALSE
    /\ replaced' = FALSE
    /\ UNCHANGED <<rawTables, mapTables, nIngest, loaded, nLoad, locked, txn>>

\* One call of list_unmapped_players.
Unmapped ==
    /\ call' = [op |-> "list_unmapped_players"]
    /\ ret' = [status |-> "ok", value |-> list_unmapped_players(DB)]
    /\ reingest' = FALSE
    /\ replaced' = FALSE
    /\ UNCHANGED <<rawTables, mapTables, nIngest, loaded, nLoad, locked, txn>>

\* One call of export_players_template; main writes the returned text to
\* the mapping file.
Export ==
    /\ \E text \in export_players_template(DB) :
          ret' = [status |-> "ok", value |-> text]
    /\ call' = [op |-> "export_players_template"]
    /\ reingest' = FALSE
    /\ replaced' = FALSE
    /\ UNCHANGED <<rawTables, mapTables, nIngest, loaded, nLoad, locked, txn>>

\* load_mappings on the mapping file the export has just written.
LoadTemplate ==
    /\ call.op = "export_players_template"
    /\ Load(safe_load(ret.value))

\* One call of get_session_data.
SessionData(use_enriched) ==
    /\ call' = [op |-> "get_session_data", use_enriched |-> use_enriched]
    /\ ret' = [status |-> "ok", value |-> get_session_data(DB, use_enriched)]
    /\ reingest' = FALSE
    /\ replaced' = FALSE
    /\ UNCHANGED <<rawTables, mapTables, nIngest, loaded, nLoad, locked, txn>>

\* One call of get_pot_sizes.
PotSizes ==
    /\ call' = [op |-> "get_pot_sizes"]
    /\ ret' = [status |-> "ok", value |-> get_pot_sizes(DB)]
    /\ reingest' = FALSE
    /\ replaced' = FALSE
    /\ UNCHANGED <<rawTables, mapTables, nIngest, loaded, nLoad, locked, txn>>

\* The session ingestor alone.
Next ==
    \/ \E d \in Docs : Ingest(d)
    \/ Collect

Spec == Init /\ [][Next]_vars

\* Directories of session documents.
NextDir ==
    \/ \E files \in Batches : IngestDir(files)
    \/ Collect

SpecDir == Init /\ [][NextDir]_vars

\* The identity resolver alone.
NextMap ==
    \/ \E s \in Sources : Load(s)
    \/ \E p \in RawIds, n \in Nicknames : Lookup(p, n)
    \/ \E p \in RawIds, n \in Nicknames : Resolve(p, n)
    \/ Collect

SpecMap == Init /\ [][NextMap]_vars

\* load_mappings statement by statement, with readers on connections of
\* their own.
NextConc ==
    \/ \E s \in Sources : LoadBegin(s)
    \/ LoadEntry
    \/ LoadCommit
    \/ LoadRaise
    \/ \E p \in RawIds, n \in Nicknames : Lookup(p, n)
    \/ \E p \in RawIds, n \in Nicknames : Resolve(p, n)
    \/ Collect

SpecConc == Init /\ [][NextConc]_vars

\* Ingests and loads followed by the statistics queries.
NextQuery ==
    \/ \E d \in QueryDocs : Ingest(d)
    \/ \E s \in QuerySources : Load(s)
    \/ \E e \in BOOLEAN, m \in 0..MIN_GAMES : Stats(e, m)
    \/ EnrichedStats

SpecQuery == Init /\ [][NextQuery]_vars

\* The same where the raw identifiers of the documents are arbitrary strings.
NextKeys ==
    \/ \E d \in KeyDocs : Ingest(d)
    \/ \E s \in {Source(<<>>), SrcMerged, SrcSplit} : Load(s)
    \/ Stats(TRUE, 0)
    \/ EnrichedStats

SpecKeys == Init /\ [][NextKeys]_vars

\* The writers, every query, and the export of a template with its load.
NextRound ==
    \/ \E d \in RoundDocs : Ingest(d)
    \/ \E s \in {SrcMerged, MissingSource} : Load(s)
    \/ Export
    \/ LoadTemplate
    \/ Unmapped
    \/ \E p \in RawIds, n \in {"Ann", "Bob"} : Lookup(p, n)
    \/ \E p \in RawIds, n \in {"Ann", "Bob"} : Resolve(p, n)
    \/ \E e \in BOOLEAN : Stats(e, 0)
    \/ EnrichedStats
    \/ \E e \in BOOLEAN : SessionData(e)
    \/ PotSizes
    \/ Collect

SpecRound == Init /\ [][NextRound]_vars

\* ================================================================ claims
RECURSIVE DocEvents(_)
\* The events of a list of hands, in document order.
DocEvents(hs) == IF hs = <<>> THEN <<>> ELSE Head(hs).events \o DocEvents(Tail(hs))

NumCommunity(d) == Len(SelectSeq(DocEvents(d.hands), LAMBDA e : e.type = 9))
NumResults(d) == Len(SelectSeq(DocEvents(d.hands), LAMBDA e : e.type = 10))
NumGeneric(d) == Len(SelectSeq(DocEvents(d.hands), LAMBDA e : e.type \notin {9, 10}))

\* The last n rows of a table.
LastRows(t, n) == SubSeq(t, Len(t) - n + 1, Len(t))

\* A step that is the second of two consecutive successful ingests of one
\* document.
ReingestStep == call'.op = "ingest_file" /\ reingest' /\ ret'.status = "ok"

\* C1 (as claimed): ingesting the identical document a second time leaves the
\* number of games, hands, players and hand_players rows as the first ingest
\* left them.
C1_ReingestKeepsCounts ==
    [][ReingestStep =>
          /\ Len(games') = Len(games)
          /\ Len(hands') = Len(hands)
          /\ Len(players') = Len(players)
          /\ Len(hand_players') = Len(hand_players)]_vars

\* C2: every successful ingest appends one row per event of the document to
\* the table its tag selects and leaves the earlier rows in place; ingesting
\* the identical document a second time appends the very rows the first
\* ingest appended, so the document's events, community_cards and
\* hand_results rows are doubled.
C2_ReingestDoubles ==
    [][(call'.op = "ingest_file" /\ ret'.status = "ok") =>
          LET d == call'.doc
          IN  /\ IsPrefix(events, events')
              /\ IsPrefix(community_cards, community_cards')
              /\ IsPrefix(hand_results, hand_results')
              /\ Len(events') = Len(events) + NumGeneric(d)
              /\ Len(community_cards') = Len(community_cards) + NumCommunity(d)
              /\ Len(hand_results') = Len(hand_results) + NumResults(d)
              /\ reingest' =>
                   /\ LastRows(events', NumGeneric(d)) = LastRows(events, NumGeneric(d))
                   /\ LastRows(community_cards', NumCommunity(d))
                        = LastRows(community_cards, NumCommunity(d))
                   /\ LastRows(hand_results', NumResults(d))
                        = LastRows(hand_results, NumResults(d))]_vars

\* C2 witness: a document with generic, community-card and result events has
\* been ingested twice in a row.
C2_Witness ==
    /\ call.op = "ingest_file" /\ reingest /\ ret.status = "ok"
    /\ NumGeneric(call.doc) > 0 /\ NumCommunity(call.doc) > 0 /\ NumResults(call.doc) > 0
    /\ Len(events) = 2 * NumGeneric(call.doc)
    /\ Len(community_cards) = 2 * NumCommunity(call.doc)
    /\ Len(hand_results) = 2 * NumResults(call.doc)

\* The rows of hand h in hand_players table t, and the players they name.
RowsOfHand(t, h) == SelectSeq(t, LAMBDA r : r.hand_id = h)
PlayersOfHand(t, h) == {r.player_id : r \in Range(RowsOfHand(t, h))}

\* The raw player IDs that the rosters of document d list for hand h.
ListedFor(d, h) ==
    UNION {{p.id : p \in Range(d.hands[i].players)} :
              i \in {k \in DOMAIN d.hands : d.hands[k].id = h}}

\* The hands of document d whose identifier occurs once in d.
SingleHands(d) ==
    {i \in DOMAIN d.hands : \A j \in DOMAIN d.hands : d.hands[j].id = d.hands[i].id => j = i}

C9_UniqueHandPlayer ==
    \A i, j \in DOMAIN hand_players :
        (/\ hand_players[i].hand_id = hand_players[j].hand_id
         /\ hand_players[i].player_id = hand_players[j].player_id) => i = j

\* C9 witness: a roster listing one player twice has been ingested twice.
C9_Witness ==
    /\ call.op = "ingest_file" /\ reingest /\ ret.status = "ok"
    /\ \E i \in DOMAIN call.doc.hands :
          \E j, k \in DOMAIN call.doc.hands[i].players :
              /\ j # k
              /\ call.doc.hands[i].players[j].id = call.doc.hands[i].players[k].id
    /\ hand_players # <<>>

\* A document without session identifier, or with a hand without identifier.
Malformed(d) == d.gameId = NULL \/ \E i \in DOMAIN d.hands : d.hands[i].id = NULL

\* C10 (as claimed): the ingest of a malformed document ends in a failure.
C10_MalformedFails ==
    (call.op = "ingest_file" /\ Malformed(call.doc)) => ret.status # "ok"

\* ------------------------------------------------------ identity resolver
\* The entries of source src that have a display name and list the alias
\* (player_id, nickname), by position.
NamedListings(src, player_id, nickname) ==
    {i \in DOMAIN src.canonical_players :
        /\ src.canonical_players[i].name # NULL
        /\ \E a \in Range(src.canonical_players[i].aliases) :
              a.id = player_id /\ a.nickname = nickname}

\* All the entries of source src that list the alias, named or not.
Listings(src, player_id, nickname) ==
    {i \in DOMAIN src.canonical_players :
        \E a \in Range(src.canonical_players[i].aliases) :
            a.id = player_id /\ a.nickname = nickname}

\* The display name of the first named entry of src listing the alias, NULL
\* if there is none.
FirstListingName(src, player_id, nickname) ==
    LET L == NamedListings(src, player_id, nickname)
    IN  IF L = {} THEN NULL
        ELSE src.canonical_players[CHOOSE i \in L : \A j \in L : i <= j].name

\* C3 (as claimed): after a load that returned its counts, every alias the
\* source lists resolves to the display name of each entry listing it, and
\* every pair the source does not list is unmapped.
C3_ListedAliasesResolve ==
    (call.op = "load_mappings" /\ Completed(ret)) =>
        \A p \in RawIds, n \in Nicknames :
            IF Listings(call.src, p, n) = {}
            THEN /\ get_canonical_name(DB, p, n) = NULL
                 /\ resolve_player(DB, p, n) = <<p, n>>
            ELSE \A i \in Listings(call.src, p, n) :
                    /\ get_canonical_name(DB, p, n) # NULL
                    /\ get_canonical_name(DB, p, n) = call.src.canonical_players[i].name

\* C3 (amended): the lookups answer from the last source whose load returned
\* its counts: an alias listed (raw ID and nickname both present) under an
\* entry that has a display name resolves to the name of the first such
\* entry, every other pair is unmapped; a load that returns an error or
\* raises leaves the answers as they were.
C3_LookupFollowsLoaded ==
    /\ call.op = "load_mappings" =>
          \A p \in RawIds, n \in Nicknames :
              get_canonical_name(DB, p, n) = FirstListingName(loaded, p, n)
    /\ call.op = "get_canonical_name" =>
          ret.value = FirstListingName(loaded, call.player_id, call.nickname)
    /\ call.op = "resolve_player" =>
          LET name == FirstListingName(loaded, call.player_id, call.nickname)
          IN  IF name = NULL
              THEN ret.value = <<call.player_id, call.nickname>>
              ELSE /\ ret.value[2] = name
                   /\ \E cp \in Range(canonical_players) :
                         cp.name = name /\ ret.value[1] = CanonicalKey(cp.id)

\* C3 witness: after the second of two loads, an alias that the loaded
\* source lists under two entries was looked up and resolved to the first.
C3_Witness ==
    /\ call.op = "get_canonical_name" /\ ret.value = "Lenny"
    /\ loaded = SrcAliasShared
    /\ Cardinality(Listings(loaded, call.player_id, call.nickname)) = 2
    /\ nLoad = 2

\* C4 (as claimed): after a second load_mappings call on an existing source
\* has returned, whatever
\* the first load left, no pair resolves that the second source does not
\* list and no canonical player remains that the second source does not name.
C4_SecondLoadReplaces ==
    (call.op = "load_mappings" /\ nLoad >= 2 /\ call.src.exists /\ ret.status = "ok") =>
        /\ \A p \in RawIds, n \in Nicknames :
              Listings(call.src, p, n) = {} => get_canonical_name(DB, p, n) = NULL
        /\ \A cp \in Range(canonical_players) :
              \E e \in Range(call.src.canonical_players) : e.name = cp.name

\* The aliases (both fields present) that source src lists under an entry
\* that has a display name.
NamedAliases(src) ==
    {<<a.id, a.nickname>> :
        a \in UNION {Range(src.canonical_players[i].aliases) :
                        i \in {k \in DOMAIN src.canonical_players :
                                 src.canonical_players[k].name # NULL}}}
      \ {x \in (RawIds \cup {NULL}) \X (Nicknames \cup {NULL}) :
            x[1] = NULL \/ x[2] = NULL}

\* C4 (amended): the mapping tables hold exactly what the last source whose
\* load returned its counts defines, whatever they held before: one
\* canonical_players row per named entry and one player_mappings row per
\* alias listed under a named entry, bound to the first entry listing it.  A
\* load that returns an error or raises leaves them as they were.
C4_TablesFollowLoaded ==
    /\ {cp.name : cp \in Range(canonical_players)}
         = {e.name : e \in Range(loaded.canonical_players)} \ {NULL}
    /\ Len(canonical_players)
         = Cardinality({i \in DOMAIN loaded.canonical_players :
                           loaded.canonical_players[i].name # NULL})
    /\ {<<pm.raw_player_id, pm.nickname>> : pm \in Range(player_mappings)}
         = NamedAliases(loaded)
    /\ Len(player_mappings) = Cardinality(NamedAliases(loaded))
    /\ \A pm \in Range(player_mappings) :
          \E cp \in Range(canonical_players) :
              /\ cp.id = pm.canonical_id
              /\ cp.name = FirstListingName(loaded, pm.raw_player_id, pm.nickname)

\* C4 witness: a second load returned its counts, dropped an alias that the
\* first load had made resolvable, and bound others.
C4_Witness ==
    /\ call.op = "load_mappings" /\ replaced /\ nLoad = 2
    /\ player_mappings # <<>>

\* ------------------------------------------------ claims: the statistics

\* The hands in which raw player p took part, by the hand_players rows.
RawHands(p) ==
    {hp.hand_id : hp \in {x \in Range(hand_players) : x.player_id = p}}

\* The sessions of those hands.
RawSessions(p) ==
    {h.game_id : h \in {x \in Range(hands) : x.id \in RawHands(p)}}

\* The raw players with a participation.
Participants == {p \in RawIds : RawHands(p) # {}}

\* The nickname the players table holds for raw player p.
CurrentName(p) == (CHOOSE r \in Range(players) : r.id = p).name

\* Raw player p, under its current nickname, is mapped to a canonical player.
IsMapped(p) == MappingMatches(DB, p, CurrentName(p)) # <<>>

\* The identity under which the enriched queries count raw player p.
ResolvedKey(p) == resolve_player(DB, p, CurrentName(p))[1]

\* Two distinct raw players with participations are mapped to one canonical
\* player.
Merged(p, q) ==
    /\ p \in Participants /\ q \in Participants /\ p # q
    /\ IsMapped(p) /\ IsMapped(q)
    /\ ResolvedKey(p) = ResolvedKey(q)

\* The rows of an enriched result, whichever query produced it, as
\* <<identity, hands played>> pairs.
EnrichedRows ==
    IF call.op = "get_enriched_player_stats"
    THEN {<<r.player_key, r.hands_played>> : r \in ret.value}
    ELSE IF call.op = "get_player_statistics" /\ call.use_enriched
                                              /\ call.min_games = 0
    THEN {<<r.id, r.hands_played>> : r \in ret.value}
    ELSE {}

IsEnrichedCall ==
    \/ call.op = "get_enriched_player_stats"
    \/ call.op = "get_player_statistics" /\ call.use_enriched /\ call.min_games = 0

\* C5 (as claimed): in an enriched result, two raw players mapped to one
\* canonical player appear as one row whose hands played is the sum of the
\* hands played of the two.
C5_MergedRowSumsHands ==
    IsEnrichedCall =>
        \A p, q \in RawIds :
            Merged(p, q) =>
                /\ Cardinality({r \in EnrichedRows : r[1] \in {ResolvedKey(p), p, q}}) = 1
                /\ <<ResolvedKey(p),
                     Cardinality(RawHands(p)) + Cardinality(RawHands(q))>>
                      \in EnrichedRows

\* C5 (amended): in an enriched result, two raw players mapped to one
\* canonical player appear as one row, under the canonical identity, whose
\* hands played is the number of distinct hands in which at least one of the
\* two took part: a hand both sat in counts once.
C5_MergedRowCountsDistinctHands ==
    IsEnrichedCall =>
        \A p, q \in RawIds :
            Merged(p, q) =>
                /\ Cardinality({r \in EnrichedRows : r[1] \in {ResolvedKey(p), p, q}}) = 1
                /\ <<ResolvedKey(p),
                     Cardinality(RawHands(p) \cup RawHands(q))>>
                      \in EnrichedRows

\* C5 witness: an enriched result about two merged raw players who sat
\* together in one hand while one of them also played a hand alone.
C5_Witness ==
    /\ call.op = "get_enriched_player_stats"
    /\ Merged("p1", "p2")
    /\ RawHands("p1") \cap RawHands("p2") # {}
    /\ RawHands("p1") # RawHands("p2")
    /\ \E r \in ret.value : r.player_key = CanonicalKey(1) /\ r.hands_played = 2

\* C6: a raw-mode result has exactly one row per raw player with a
\* participation (and enough sessions, where a threshold is given), carrying
\* that player's own nickname, hands and sessions, and it is the result the
\* same query gives when the two mapping tables are empty.
C6_RawRowsPerRawId ==
    (call.op = "get_player_statistics" /\ ~call.use_enriched) =>
        /\ {r.id : r \in ret.value}
             = {p \in Participants :
                   call.min_games > 0 =>
                       Cardinality(RawSessions(p)) >= call.min_games}
        /\ \A r \in ret.value :
              /\ r.name = CurrentName(r.id)
              /\ r.hands_played = Cardinality(RawHands(r.id))
              /\ r.games_played = Cardinality(RawSessions(r.id))
              /\ \A r2 \in ret.value : r2.id = r.id => r2 = r
        /\ ret.value =
              get_player_statistics(
                  [DB EXCEPT !.canonical_players = <<>>, !.player_mappings = <<>>],
                  FALSE, call.min_games)

\* C6 witness: a raw-mode result of two rows while both raw players are
\* mapped to one canonical player.
C6_Witness ==
    /\ call.op = "get_player_statistics" /\ ~call.use_enriched
    /\ call.min_games = 0
    /\ Merged("p1", "p2")
    /\ Cardinality(ret.value) = 2

\* The identity under which a result of get_player_statistics counts raw
\* player p.
KeyIn(use_enriched, p) == IF use_enriched THEN ResolvedKey(p) ELSE p

\* The distinct sessions of all raw players counted under identity k.
SessionsOfKey(use_enriched, k) ==
    UNION {RawSessions(p) : p \in {x \in Participants : KeyIn(use_enriched, x) = k}}

\* C7: with a threshold t > 0 the result holds a row for an identity exactly
\* when the distinct sessions of the whole group counted under it number at
\* least t, and the row reports that number.
C7_ThresholdAfterGrouping ==
    (call.op = "get_player_statistics" /\ call.min_games > 0) =>
        /\ {r.id : r \in ret.value}
             = {k \in {KeyIn(call.use_enriched, p) : p \in Participants} :
                   Cardinality(SessionsOfKey(call.use_enriched, k)) >= call.min_games}
        /\ \A r \in ret.value :
              r.games_played = Cardinality(SessionsOfKey(call.use_enriched, r.id))

\* C7 witness: an enriched result with threshold 2 holds the row of a
\* canonical player whose two raw players played one session each.
C7_Witness ==
    /\ call.op = "get_player_statistics" /\ call.use_enriched
    /\ call.min_games = 2
    /\ Merged("p1", "p2")
    /\ Cardinality(RawSessions("p1")) = 1 /\ Cardinality(RawSessions("p2")) = 1
    /\ \E r \in ret.value : r.id = CanonicalKey(1) /\ r.games_played = 2

\* --------------------------------------------- claims: failures of ingest

\* C11: an ingest_file call that raises, wherever in the document it does,
\* leaves every table of the store exactly as it was before the call.
C11_FailedIngestChangesNothing ==
    [][(call'.op = "ingest_file" /\ ret'.status # "ok")
          => UNCHANGED <<rawTables, mapTables>>]_vars

\* C11 witness: an ingest raised on the second hand of its document, after
\* the session row and the rows of the first hand had been written; the
\* store still holds the rows of an earlier session and none of this one.
C11_Witness ==
    /\ call.op = "ingest_file" /\ ret.status = "IntegrityError"
    /\ Len(call.doc.hands) = 2
    /\ call.doc.hands[1].id # NULL /\ call.doc.hands[1].events # <<>>
    /\ games # <<>> /\ hand_players # <<>>
    /\ \A g \in Range(games) : g.id # call.doc.gameId
    /\ \A h \in Range(hands) : h.game_id # call.doc.gameId

\* C12 (as claimed): ingest_directory returns one result per document of
\* the directory, and every document that ingest_file accepts is in the
\* store afterwards, whether or not another document of the directory fails.
C12_BatchSurvivesFailure ==
    call.op = "ingest_directory" =>
        /\ ret.status = "ok"
        /\ Len(ret.results) = Len(call.files)
        /\ \A i \in DOMAIN call.files :
              ingest_file(EmptyDB, call.files[i]).status = "ok" =>
                  \E g \in Range(games) : g.id = call.files[i].gameId

\* ------------------------------------- claims: failures of load_mappings

\* C13 (as claimed): a load_mappings call on a source that does not exist,
\* is empty or lacks its top-level canonical_players key returns an error
\* description, does not raise, and leaves every table as it was.
C13_BadSourceReturnsError ==
    [][(call'.op = "load_mappings" /\ ~(call'.src.exists /\ call'.src.hasKey))
          => /\ ret'.status = "ok"
             /\ ret'.error # NULL
             /\ UNCHANGED <<rawTables, mapTables>>]_vars

\* C14: a load_mappings call that does not return its counts (it returns an
\* error, or raises part-way through the repopulation, or finds the store
\* locked) leaves canonical_players and player_mappings exactly as they
\* were, which is as the last load that returned its counts left them.
C14_IncompleteLoadKeepsTables ==
    [][(call'.op = "load_mappings" /\ ~Completed(ret'))
          => /\ UNCHANGED mapTables
             /\ loaded' = loaded]_vars

\* C14 witness: a load raised on its second entry, after the DELETEs and
\* the rows of its first entry; the tables hold the two canonical players
\* and the aliases of the load before it.
C14_Witness ==
    /\ call.op = "load_mappings" /\ ret.status = "IntegrityError"
    /\ Len(call.src.canonical_players) = 2
    /\ call.src.canonical_players[1].aliases # <<>>
    /\ loaded = SrcSplit
    /\ Len(canonical_players) = 2 /\ Len(player_mappings) = 2
    /\ \E cp \in Range(canonical_players) : cp.name = "Mia"

\* ------------------------------------------- claims: readers and a load

\* The store after a load of source src that returned its counts.
AfterLoad(src) == Repopulate(EmptyDB, src).db

\* C15: whatever statement a load_mappings call has reached, a reader on a
\* connection of its own sees canonical_players and player_mappings exactly
\* as the last load that returned its counts left them, and a lookup made
\* meanwhile answers from that mapping: complete before the commit of the
\* running load, complete after it.
C15_ReadersSeeWholeLoads ==
    /\ Visible(DB, Working).canonical_players = AfterLoad(loaded).canonical_players
    /\ Visible(DB, Working).player_mappings = AfterLoad(loaded).player_mappings
    /\ call.op = "get_canonical_name" =>
          ret.value = get_canonical_name(AfterLoad(loaded),
                                         call.player_id, call.nickname)
    /\ call.op = "resolve_player" =>
          ret.value = resolve_player(AfterLoad(loaded),
                                     call.player_id, call.nickname)

\* C15 witness: a lookup made while a load had deleted the old rows and
\* inserted the rows of its first entry only resolved an alias of the old
\* mapping that the running transaction no longer holds.
C15_Witness ==
    /\ txn.pc = "loading" /\ txn.i = 2 /\ Len(txn.src.canonical_players) = 2
    /\ txn.ctx.status = "ok"
    /\ call.op = "get_canonical_name" /\ ret.value # NULL
    /\ get_canonical_name(txn.ctx.db, call.player_id, call.nickname) = NULL
    /\ txn.ctx.db.canonical_players # <<>>

\* ------------------------------------------- claims: warnings of a load

\* The source is one on which load_mappings gets past its two checks.
Loadable(src) == src.exists /\ src.hasKey

\* The largest element of a sequence of naturals, 0 for the empty one.
SeqMax(q) ==
    IF q = <<>> THEN 0 ELSE CHOOSE m \in Range(q) : \A x \in Range(q) : x <= m

RECURSIVE AssignedIds(_)
\* The canonical ids of a list of named entries, in order: the explicit id
\* where the entry gives one, else one more than the largest id before it.
AssignedIds(es) ==
    IF es = <<>> THEN <<>>
    ELSE LET before == AssignedIds(SubSeq(es, 1, Len(es) - 1))
             e == es[Len(es)]
         IN  Append(before, IF e.id # NullInt THEN e.id ELSE 1 + SeqMax(before))

\* The named entries of src have distinct display names and distinct ids.
NoCanonicalClash(src) ==
    LET named == SelectSeq(src.canonical_players, LAMBDA e : e.name # NULL)
        ids == AssignedIds(named)
    IN  \A i, j \in DOMAIN named :
            i < j => named[i].name # named[j].name /\ ids[i] # ids[j]

\* The places <<entry, alias>> of src where the pair (p, n) is listed under
\* an entry that has a display name.
Occurrences(src, p, n) ==
    {x \in UNION {{<<i, j>> : j \in DOMAIN src.canonical_players[i].aliases} :
                     i \in DOMAIN src.canonical_players} :
        /\ src.canonical_players[x[1]].name # NULL
        /\ src.canonical_players[x[1]].aliases[x[2]] = Alias(p, n)}

\* The warnings of a result that report the pair (p, n) as not added.
DuplicateWarnings(stats, p, n) ==
    {k \in DOMAIN stats.errors :
        stats.errors[k] = Warning("Failed to add mapping", p, n)}

\* C16: a load on a source that lists an alias pair more than once (and
\* whose canonical names and ids are unique, the store not being locked)
\* returns its counts; the pair is bound to the entry that lists it first;
\* each later listing adds one warning and is not counted in
\* mappings_added; every alias and entry after it is loaded.
C16_DuplicateAliasWarns ==
    [][(/\ call'.op = "load_mappings" /\ Loadable(call'.src) /\ ~locked
        /\ NoCanonicalClash(call'.src)
        /\ \E p \in RawIds, n \in Nicknames :
              Cardinality(Occurrences(call'.src, p, n)) > 1)
          => /\ Completed(ret')
             /\ \A p \in RawIds, n \in Nicknames :
                   LET occ == Occurrences(call'.src, p, n)
                   IN  /\ Cardinality(DuplicateWarnings(ret'.stats, p, n))
                            = IF occ = {} THEN 0 ELSE Cardinality(occ) - 1
                       /\ occ # {} =>
                             get_canonical_name(DB', p, n)
                                = FirstListingName(call'.src, p, n)
             /\ ret'.stats.mappings_added
                   = Cardinality({x \in RawIds \X Nicknames :
                                     Occurrences(call'.src, x[1], x[2]) # {}})
             /\ Len(player_mappings') = ret'.stats.mappings_added
             /\ Len(canonical_players')
                   = Cardinality({i \in DOMAIN call'.src.canonical_players :
                                     call'.src.canonical_players[i].name # NULL})]_vars

\* C16 witness: a load of a source that repeats an alias under its entry
\* and under the next one returned two warnings and three mappings, among
\* them the aliases listed after each repetition.
C16_Witness ==
    /\ call.op = "load_mappings" /\ call.src = SrcAliasAgain
    /\ Completed(ret)
    /\ Len(ret.stats.errors) = 2 /\ ret.stats.mappings_added = 3
    /\ get_canonical_name(DB, "p1", "Ann") = "Lenny"
    /\ get_canonical_name(DB, "p1", "Al") = "Lenny"
    /\ get_canonical_name(DB, "p2", "Bob") = "Mia"

\* The entries of src with, and without, a display name.
NamedEntries(src) ==
    {i \in DOMAIN src.canonical_players : src.canonical_players[i].name # NULL}
NamelessEntries(src) ==
    {i \in DOMAIN src.canonical_players : src.canonical_players[i].name = NULL}

\* C17: a load on a source holding an entry without display name (the
\* canonical names and ids of the others being unique, the store not
\* locked) returns its counts with one warning per such entry; the entry
\* gives no canonical_players row and is not counted, the aliases listed
\* only under it stay unmapped, and every entry with a name, before or
\* after it, is loaded.
C17_NamelessEntrySkipped ==
    [][(/\ call'.op = "load_mappings" /\ Loadable(call'.src) /\ ~locked
        /\ NoCanonicalClash(call'.src)
        /\ NamelessEntries(call'.src) # {})
          => /\ Completed(ret')
             /\ Cardinality({k \in DOMAIN ret'.stats.errors :
                    ret'.stats.errors[k]
                       = Warning("Player entry missing 'name' field", NULL, NULL)})
                  = Cardinality(NamelessEntries(call'.src))
             /\ ret'.stats.canonical_players_added
                  = Cardinality(NamedEntries(call'.src))
             /\ Len(canonical_players') = Cardinality(NamedEntries(call'.src))
             /\ {cp.name : cp \in Range(canonical_players')}
                  = {call'.src.canonical_players[i].name : i \in NamedEntries(call'.src)}
             /\ \A pm \in Range(player_mappings') :
                   Occurrences(call'.src, pm.raw_player_id, pm.nickname) # {}
             /\ \A p \in RawIds, n \in Nicknames :
                   Occurrences(call'.src, p, n) # {} =>
                       get_canonical_name(DB', p, n) # NULL]_vars

\* C17 witness: a load of a source whose first entry has no name returned
\* one warning and one canonical player; the alias of the nameless entry is
\* unmapped and the alias of the entry after it resolves.
C17_Witness ==
    /\ call.op = "load_mappings" /\ call.src = SrcNameless
    /\ Completed(ret)
    /\ ret.stats.errors = <<Warning("Player entry missing 'name' field", NULL, NULL)>>
    /\ ret.stats.canonical_players_added = 1
    /\ Len(canonical_players) = 1
    /\ get_canonical_name(DB, "p1", "Ann") = NULL
    /\ get_canonical_name(DB, "p2", "Bob") = "Mia"

\* C18 (as claimed): every load on a source that exists and has its
\* canonical_players key, the store not being locked, runs to completion
\* and returns its counts and its warning list.
C18_LoadAlwaysCompletes ==
    [][(call'.op = "load_mappings" /\ Loadable(call'.src) /\ ~locked)
          => /\ Completed(ret')
             /\ ret'.stats.canonical_players_added >= 0
             /\ ret'.stats.mappings_added >= 0]_vars

\* ------------------------------------------ claims: the events of a hand

\* The raw player ID of the last roster entry that names the seat, NULL
\* when the roster names the seat nowhere.
SeatedOn(roster, seat) ==
    LET at == {i \in DOMAIN roster : roster[i].seat = seat}
    IN  IF at = {} THEN NULL
        ELSE roster[CHOOSE i \in at : \A j \in at : j <= i].id

\* The hand_results rows a hand calls for: one per tag-10 event, in order,
\* resolved against the roster of that hand alone.
ResultsOfHand(h) ==
    LET res == SelectSeq(h.events, LAMBDA e : e.type = 10)
    IN  [k \in 1..Len(res) |->
            [hand_id |-> h.id, seat |-> res[k].seat,
             player_id |-> SeatedOn(h.players, res[k].seat)]]

RECURSIVE ResultsOfHands(_)
ResultsOfHands(hs) ==
    IF hs = <<>> THEN <<>>
    ELSE ResultsOfHand(Head(hs)) \o ResultsOfHands(Tail(hs))

\* C19: the hand_results rows a successful ingest inserts carry, each, the
\* raw player ID that the roster of the row's own hand places on the row's
\* seat, and NULL when that roster places nobody there, whatever the
\* rosters of the other hands of the document.
C19_ResultPlayerFromOwnHand ==
    [][(call'.op = "ingest_file" /\ ret'.status = "ok") =>
          LastRows(hand_results', NumResults(call'.doc))
             = ResultsOfHands(call'.doc.hands)]_vars

\* C19 witness: the second hand of an ingested document has a result on a
\* seat that only the roster of the first hand occupies, stored without
\* player, and a result on a seat that the two rosters give to different
\* players, stored with the player of the second.
C19_Witness ==
    /\ call.op = "ingest_file" /\ ret.status = "ok"
    /\ Len(call.doc.hands) = 2
    /\ SeatedOn(call.doc.hands[1].players, 2) = "p2"
    /\ SeatedOn(call.doc.hands[1].players, 1) = "p1"
    /\ [hand_id |-> "h2", seat |-> 2, player_id |-> NULL] \in Range(hand_results)
    /\ [hand_id |-> "h2", seat |-> 1, player_id |-> "p2"] \in Range(hand_results)
    /\ [hand_id |-> "h1", seat |-> 1, player_id |-> "p1"] \in Range(hand_results)

\* The events of a hand with their hand, in order.
TaggedEvents(h) ==
    [k \in 1..Len(h.events) |->
        [hand_id |-> h.id, event_type |-> h.events[k].type,
         seat |-> h.events[k].seat]]

RECURSIVE TaggedEventsOf(_)
TaggedEventsOf(hs) ==
    IF hs = <<>> THEN <<>> ELSE TaggedEvents(Head(hs)) \o TaggedEventsOf(Tail(hs))

\* The hand of each row of a table, in row order.
HandsOfRows(t) == [k \in 1..Len(t) |-> t[k].hand_id]

\* C20: a successful ingest adds exactly one row per event of its document:
\* for the events of tag 9 one community_cards row each, for those of tag
\* 10 one hand_results row each, and for all others, whatever their tag
\* (documented or not, or absent), one events row each whose event_type is
\* the tag as the document gives it; all in document order, under the
\* event's hand.
C20_OneRowPerEventByTag ==
    [][(call'.op = "ingest_file" /\ ret'.status = "ok") =>
          LET all == TaggedEventsOf(call'.doc.hands)
              d == call'.doc
          IN  /\ (Len(events') - Len(events))
                   + (Len(community_cards') - Len(community_cards))
                   + (Len(hand_results') - Len(hand_results)) = Len(all)
              /\ LastRows(events', NumGeneric(d))
                   = SelectSeq(all, LAMBDA e : e.event_type \notin {9, 10})
              /\ HandsOfRows(LastRows(community_cards', NumCommunity(d)))
                   = HandsOfRows(SelectSeq(all, LAMBDA e : e.event_type = 9))
              /\ HandsOfRows(LastRows(hand_results', NumResults(d)))
                   = HandsOfRows(SelectSeq(all, LAMBDA e : e.event_type = 10))
              /\ ret'.stats.events_added = NumGeneric(d)
              /\ ret'.stats.results_added = NumResults(d)]_vars

\* C20 witness: after the ingest of a document with a blind, a flop and a
\* result, a document with an undocumented tag and an event without tag has
\* been ingested; each of the two is a row of events under its own tag.
C20_Witness ==
    /\ call.op = "ingest_file" /\ ret.status = "ok"
    /\ Len(call.doc.hands) = 1
    /\ \E e \in Range(call.doc.hands[1].events) : e.type \notin EVENT_TYPES \cup {NullInt}
    /\ \E e \in Range(call.doc.hands[1].events) : e.type = NullInt
    /\ Len(community_cards) = 1 /\ Len(hand_results) = 1 /\ Len(events) = 4
    /\ {e.event_type : e \in Range(events)} = {2, 3, 99, NullInt}

\* The community-card events of a hand with their hand, in order.
BoardEvents(h) ==
    SelectSeq([k \in 1..Len(h.events) |->
                  [hand_id |-> h.id, type |-> h.events[k].type,
                   cards |-> h.events[k].cards]],
              LAMBDA e : e.type = 9)

RECURSIVE BoardEventsOf(_)
BoardEventsOf(hs) ==
    IF hs = <<>> THEN <<>> ELSE BoardEvents(Head(hs)) \o BoardEventsOf(Tail(hs))

\* Card slot i of a list of cards: the i-th card, null beyond the list.
Slot(cards, i) == IF i <= Len(cards) THEN cards[i] ELSE NULL

\* C21: a successful ingest stores each community-card event of k cards,
\* 0 <= k <= 5, as one community_cards row under the event's hand whose
\* slots card_1..card_k hold the cards in order and whose slots
\* card_k+1..card_5 are null.
C21_BoardPaddedToFive ==
    [][(call'.op = "ingest_file" /\ ret'.status = "ok") =>
          LET boards == BoardEventsOf(call'.doc.hands)
              rows == LastRows(community_cards', Len(boards))
          IN  /\ Len(community_cards') = Len(community_cards) + Len(boards)
              /\ \A k \in 1..Len(boards) :
                    Len(boards[k].cards) <= 5 =>
                      rows[k] = [hand_id |-> boards[k].hand_id,
                                 card_1 |-> Slot(boards[k].cards, 1),
                                 card_2 |-> Slot(boards[k].cards, 2),
                                 card_3 |-> Slot(boards[k].cards, 3),
                                 card_4 |-> Slot(boards[k].cards, 4),
                                 card_5 |-> Slot(boards[k].cards, 5)]]_vars

\* C21 witness: after the ingest of a board without cards, the ingest of a
\* flop of three cards has stored its row with two null slots.
C21_Witness ==
    /\ call.op = "ingest_file" /\ ret.status = "ok"
    /\ Len(call.doc.hands) = 1
    /\ \E e \in Range(call.doc.hands[1].events) : e.type = 9 /\ Len(e.cards) = 3
    /\ Len(community_cards) = 2
    /\ community_cards[1] = [hand_id |-> "h1", card_1 |-> NULL, card_2 |-> NULL,
                             card_3 |-> NULL, card_4 |-> NULL, card_5 |-> NULL]
    /\ community_cards[2] = [hand_id |-> "h1", card_1 |-> "Ah", card_2 |-> "Kd",
                             card_3 |-> "2c", card_4 |-> NULL, card_5 |-> NULL]
\* C22: the statistics a successful ingest_file call returns match what the
\* call wrote: hands_processed is the number of hands of the document,
\* events_added the number of events rows the call inserted, results_added
\* the number of hand_results rows it inserted, and game_id the session
\* identifier of the document.
C22_StatsMatchWrites ==
    [][(call'.op = "ingest_file" /\ ret'.status = "ok") =>
          /\ ret'.stats.hands_processed = Len(call'.doc.hands)
          /\ ret'.stats.events_added = Len(events') - Len(events)
          /\ ret'.stats.results_added = Len(hand_results') - Len(hand_results)
          /\ ret'.stats.game_id = call'.doc.gameId]_vars

\* C22 witness: a document of two hands with two blinds and three results
\* has been ingested a second time; the call reports 2 hands, 2 events and
\* 3 results although the store now holds 4 events and 6 results.
C22_Witness ==
    /\ call.op = "ingest_file" /\ ret.status = "ok" /\ reingest
    /\ ret.stats = [game_id |-> "g1", hands_processed |-> 2, players_added |-> 2,
                    events_added |-> 2, results_added |-> 3]
    /\ Len(hands) = 2 /\ Len(events) = 4 /\ Len(hand_results) = 6
\* The last hand of document d that carries the identifier h.
LastHandWith(d, h) ==
    d.hands[CHOOSE i \in DOMAIN d.hands :
                /\ d.hands[i].id = h
                /\ \A j \in DOMAIN d.hands : d.hands[j].id = h => j <= i]

\* C23 (as claimed): after every successful ingest the store holds at most
\* one games row per session identifier and at most one hands row per hand
\* identifier, and the rows of the identifiers of the ingested document hold
\* the attribute values that document gives them.
C23_OneRowPerIdentifier ==
    [][(call'.op = "ingest_file" /\ ret'.status = "ok") =>
          LET d == call'.doc
          IN  /\ \A i, j \in DOMAIN games' : games'[i].id = games'[j].id => i = j
              /\ \A i, j \in DOMAIN hands' : hands'[i].id = hands'[j].id => i = j
              /\ [id |-> d.gameId, generated_at |-> d.generatedAt] \in Range(games')
              /\ \A k \in DOMAIN d.hands :
                    [id |-> d.hands[k].id, game_id |-> d.gameId,
                     hand_number |-> LastHandWith(d, d.hands[k].id).number]
                        \in Range(hands')]_vars

RECURSIVE DocRoster(_)
\* The roster entries of a list of hands, in document order.
DocRoster(hs) == IF hs = <<>> THEN <<>> ELSE Head(hs).players \o DocRoster(Tail(hs))

\* The nickname of the last roster entry of document d that carries the
\* raw player id p.
LastNickname(d, p) ==
    LET es == SelectSeq(DocRoster(d.hands), LAMBDA e : e.id = p)
    IN  es[Len(es)].name

\* C24 (as claimed): after every successful ingest the players table holds,
\* for each raw player id of the document's rosters, one row, and its name
\* is the nickname of the last roster entry of the document carrying that
\* id; the rows of the other players are as they were.
C24_NicknameLastWriteWins ==
    [][(call'.op = "ingest_file" /\ ret'.status = "ok") =>
          LET d == call'.doc
              ids == {e.id : e \in Range(DocRoster(d.hands))}
          IN  /\ \A i, j \in DOMAIN players' : players'[i].id = players'[j].id => i = j
              /\ \A p \in ids :
                    [id |-> p, name |-> LastNickname(d, p)] \in Range(players')
              /\ \A r \in Range(players) : r.id \notin ids => r \in Range(players')]_vars
\* C25: the players_added a successful ingest_file call returns is the
\* number of distinct raw player ids in the rosters of its document,
\* whatever players the store held before the call and whatever earlier
\* calls have seen.
C25_PlayersAddedPerDocument ==
    [][(call'.op = "ingest_file" /\ ret'.status = "ok") =>
          ret'.stats.players_added
            = Cardinality({e.id : e \in Range(DocRoster(call'.doc.hands))})]_vars

\* C25 witness: a document listing two players over three roster entries
\* has been ingested a second time, into a store that already held both
\* players, and the call reports two players added.
C25_Witness ==
    /\ call.op = "ingest_file" /\ ret.status = "ok" /\ reingest
    /\ Len(DocRoster(call.doc.hands)) > 2
    /\ ret.stats.players_added = 2
    /\ Len(players) = 2
\* ------------------------------------- claims: the groups of a result

\* The raw players with a participation, whatever their identifier.
Participating ==
    {r.id : r \in {x \in Range(players) :
                     \E hp \in Range(hand_players) : hp.player_id = x.id}}

\* The canonical players an alias row binds raw player p to, under the
\* nickname the players table holds for p.
BoundTo(p) ==
    {c \in Range(canonical_players) :
        \E pm \in Range(player_mappings) :
            /\ pm.raw_player_id = p /\ pm.nickname = CurrentName(p)
            /\ pm.canonical_id = c.id}

\* The raw players with a participation bound to canonical player c.
MembersOf(c) == {p \in Participating : c \in BoundTo(p)}

\* The groups an enriched result must hold: one per canonical player with
\* bound participants, one per participant bound to none.
ExpectedGroups ==
    {[key |-> CanonicalKey(c.id), name |-> c.name,
      hands |-> Cardinality(UNION {RawHands(p) : p \in MembersOf(c)})] :
        c \in {x \in Range(canonical_players) : MembersOf(x) # {}}}
    \cup
    {[key |-> p, name |-> CurrentName(p), hands |-> Cardinality(RawHands(p))] :
        p \in {x \in Participating : BoundTo(x) = {}}}

\* The groups of an enriched result, whichever query produced it.
ResultGroups ==
    IF call.op = "get_enriched_player_stats"
    THEN {[key |-> r.player_key, name |-> r.player_name, hands |-> r.hands_played] :
             r \in ret.value}
    ELSE {[key |-> r.id, name |-> r.name, hands |-> r.hands_played] :
             r \in ret.value}

\* C26 (as claimed): an enriched result counts every raw player with a
\* participation in exactly one group: under the key and the name of the
\* canonical player its identifier and stored nickname are bound to, or else
\* in a group of its own under its raw identifier and nickname; so the
\* result holds one group per canonical player with bound participants,
\* counting the distinct hands of those, and one per unbound participant,
\* counting its own hands.
C26_OneGroupPerIdentity ==
    IsEnrichedCall =>
        /\ ResultGroups = ExpectedGroups
        /\ Cardinality({g.key : g \in ResultGroups}) = Cardinality(ResultGroups)
\* ------------------------------------------ claims: the shape of the store

\* Some row of table t carries the identifier x.
RowWithId(t, x) == x # NULL /\ \E r \in Range(t) : r.id = x

\* C27: in every store that ingests have produced, every hands row
\* references a games row, every hand_players, events, community_cards and
\* hand_results row references a hands row, and every hand_players row and
\* every hand_results row with a player references a players row.
C27_ReferentialIntegrity ==
    /\ \A h \in Range(hands) : RowWithId(games, h.game_id)
    /\ \A r \in Range(hand_players) :
          RowWithId(hands, r.hand_id) /\ RowWithId(players, r.player_id)
    /\ \A r \in Range(events) : RowWithId(hands, r.hand_id)
    /\ \A r \in Range(community_cards) : RowWithId(hands, r.hand_id)
    /\ \A r \in Range(hand_results) :
          /\ RowWithId(hands, r.hand_id)
          /\ r.player_id # NULL => RowWithId(players, r.player_id)

\* C27 witness: two successful ingests have filled every table, with
\* results both of a seated player and of an empty seat.
C27_Witness ==
    /\ call.op = "ingest_file" /\ ret.status = "ok" /\ nIngest = 2
    /\ Len(hands) = 2 /\ hand_players # <<>>
    /\ events # <<>> /\ community_cards # <<>>
    /\ \E r \in Range(hand_results) : r.player_id = NULL
    /\ \E r \in Range(hand_results) : r.player_id # NULL
\* C28: in every store that mapping loads have produced, no two
\* player_mappings rows share the pair (raw_player_id, nickname), every
\* player_mappings row references exactly one canonical_players row, and no
\* two canonical_players rows share a name.
C28_MappingTablesWellFormed ==
    /\ \A i, j \in DOMAIN player_mappings :
          (/\ player_mappings[i].raw_player_id = player_mappings[j].raw_player_id
           /\ player_mappings[i].nickname = player_mappings[j].nickname) => i = j
    /\ \A pm \in Range(player_mappings) :
          Cardinality({k \in DOMAIN canonical_players :
                          canonical_players[k].id = pm.canonical_id}) = 1
    /\ \A i, j \in DOMAIN canonical_players :
          canonical_players[i].name = canonical_players[j].name => i = j

\* C28 witness: a second load, of a source that lists one alias three times
\* under two entries, has completed and bound three pairs to two canonical
\* players.
C28_Witness ==
    /\ call.op = "load_mappings" /\ Completed(ret) /\ nLoad = 2
    /\ call.src = SrcAliasAgain
    /\ Len(canonical_players) = 2 /\ Len(player_mappings) = 3
    /\ {pm.canonical_id : pm \in Range(player_mappings)} = {1, 2}
\* ------------------------------------------------- claims: frame effects

\* The operations that only query the store.
QueryOps ==
    {"get_canonical_name", "resolve_player", "list_unmapped_players",
     "get_player_statistics", "get_enriched_player_stats", "get_session_data",
     "get_pot_sizes"}

\* C29: an ingest_file call leaves canonical_players and player_mappings as
\* they were, a load_mappings call leaves games, hands, players,
\* hand_players, events, community_cards and hand_results as they were, and
\* a call of a query operation leaves every table as it was.
C29_WritersKeepToTheirTables ==
    [][/\ call'.op = "ingest_file" => UNCHANGED mapTables
       /\ call'.op = "load_mappings" => UNCHANGED rawTables
       /\ call'.op \in QueryOps => UNCHANGED <<rawTables, mapTables>>]_vars

\* C29 witness: a second load has replaced the mappings of a store that
\* holds two ingested sessions with players, events and results.
C29_Witness ==
    /\ call.op = "load_mappings" /\ Completed(ret) /\ nLoad = 2 /\ nIngest = 2
    /\ Len(games) = 2 /\ Len(players) = 2 /\ Len(hand_players) = 3
    /\ events # <<>> /\ hand_results # <<>>
    /\ Len(canonical_players) = 2 /\ Len(player_mappings) = 2
\* ------------------------------------------- claims: export and load

\* A step that loads the template the step before has exported, with no
\* unclosed connection of an earlier failure in the way.
LoadsExported ==
    /\ call.op = "export_players_template"
    /\ call'.op = "load_mappings" /\ call'.src = safe_load(ret.value)
    /\ ~locked

\* C30 (as claimed): loading the template export_players_template has
\* produced from the store completes, and list_unmapped_players then
\* returns the empty list.
C30_ExportedTemplateMapsAll ==
    [][LoadsExported =>
          /\ Completed(ret')
          /\ list_unmapped_players(DB') = {}]_vars

====
